---- MODULE Spec2Model ----
(***************************************************************************)
(* Conversation hand-off coordinator of the chat widget / agent dashboard. *)
(*                                                                         *)
(* Part 1 models the derivation of conversation identifiers (the client    *)
(* copies of generateConversationId and the server's add_session_message). *)
(* Part 2 models the Store (conversations, messages, conversation_agents,  *)
(* agents, agent_assignments, agent_notifications), the customer widget    *)
(* (useChatbot.sendMessage and its real-time handlers), the embed view     *)
(* (initializeSocialChat) and the agent dashboard / admin operations.      *)
(* It also models the message lists of the three views, the real-time      *)
(* channel managers (RealTimeChatManager, RealtimeService and the          *)
(* SocketChatManager with its Supabase fallback) and the socket's rooms.   *)
(*                                                                         *)
(* Strings that are hashed are sequences of UTF-16 code units, as          *)
(* charCodeAt sees them.  Identifiers that are only compared are TLA+      *)
(* strings built digit by digit.                                           *)
(***************************************************************************)
EXTENDS Integers, Sequences, FiniteSets, TLC

\* ------------------------------------------------------------------------
\* Part 1: identifier derivation
\* ------------------------------------------------------------------------

\* Longest bot / session identifier drawn as an input of the derivation.
MaxIdLen == 3

\* Code units the inputs are drawn from: '1', 'a', 'z'.
Alphabet == {49, 97, 122}

\* '_' as charCodeAt returns it.
Underscore == 95

\* "_session_" as the server concatenates it.
SessionInfix == <<95, 115, 101, 115, 115, 105, 111, 110, 95>>

RECURSIVE StringsOfLen(_)
StringsOfLen(n) ==
  IF n = 0 THEN {<<>>}
  ELSE {Append(s, ch) : s \in StringsOfLen(n - 1), ch \in Alphabet}

IdStrings == UNION {StringsOfLen(n) : n \in 1..MaxIdLen}

\* A JavaScript int32 is kept as two 16-bit limbs <<hi, lo>> of its two's
\* complement bit pattern, so that no intermediate value leaves the range of
\* the checker's integers.
Limb == 65536

W32(hi, lo) == <<hi % Limb, lo % Limb>>

\* x << 5 on an int32.
Shl5(x) == W32(x[1] * 32 + (x[2] * 32) \div Limb, x[2] * 32)

\* ToInt32(a - b) for int32 a, b.
Sub32(a, b) ==
  LET lo == a[2] - b[2]
      borrow == IF lo < 0 THEN 1 ELSE 0
  IN  W32(a[1] - b[1] - borrow + Limb, lo + Limb)

\* ToInt32(a + c) for an int32 a and a code unit c.
AddChar32(a, c) ==
  LET lo == a[2] + c
  IN  W32(a[1] + lo \div Limb, lo)

IsNegative32(x) == x[1] >= 32768

\* Math.abs of an int32, as the unsigned 32-bit pattern of the result
\* (Math.abs(-2^31) = 2^31 has the pattern 0x80000000).
Abs32(x) ==
  IF IsNegative32(x)
  THEN LET lo == (Limb - x[2]) % Limb
           hi == (Limb - 1 - x[1]) + (IF x[2] = 0 THEN 1 ELSE 0)
       IN  W32(hi, lo)
  ELSE x

HexChars == <<"0", "1", "2", "3", "4", "5", "6", "7",
              "8", "9", "a", "b", "c", "d", "e", "f">>

\* Number.toString(16).padStart(8, '0') of an unsigned 32-bit value, as the
\* sequence of its 8 hex digits (0..15), most significant first.
HexDigits8(x) ==
  << (x[1] \div 4096) % 16, (x[1] \div 256) % 16, (x[1] \div 16) % 16, x[1] % 16,
     (x[2] \div 4096) % 16, (x[2] \div 256) % 16, (x[2] \div 16) % 16, x[2] % 16 >>

RECURSIVE HexString(_)
HexString(ds) ==
  IF ds = <<>> THEN "" ELSE HexChars[Head(ds) + 1] \o HexString(Tail(ds))

\* String.substring(from, to) on a digit sequence (0-based, to exclusive).
Substring(ds, from, to) == SubSeq(ds, from + 1, to)

\* generateConversationId, the widget hook's copy: the 32-bit rolling hash
\* hash = ((hash << 5) - hash) + char; hash = hash & hash over
\* `${chatbotId}_${sessionId}`, then Math.abs, 8 hex digits, and the
\* UUID-shaped template cut to 36 characters.
RECURSIVE hash_useChatbot(_, _)
hash_useChatbot(combined, hash) ==
  IF combined = <<>> THEN hash
  ELSE hash_useChatbot(Tail(combined),
                   AddChar32(Sub32(Shl5(hash), hash), Head(combined)))

generateConversationId_useChatbot(chatbotId, sessionId) ==
  LET combined == chatbotId \o <<Underscore>> \o sessionId
      hashHex == HexDigits8(Abs32(hash_useChatbot(combined, <<0, 0>>)))
      h(from, to) == HexString(Substring(hashHex, from, to))
      whole == HexString(hashHex)
  IN  \* 8 + 1 + 4 + 1 + 4 + 1 + 4 + 1 = 24 characters, then 12 of the 16
      \* characters of hashHex + hashHex survive substring(0, 36).
      h(0, 8) \o "-" \o h(0, 4) \o "-4" \o h(1, 4) \o "-8" \o h(0, 3)
        \o "-" \o whole \o h(0, 4)

\* generateConversationId, RealTimeChatManager's copy: the 32-bit rolling hash
\* hash = ((hash << 5) - hash) + char; hash = hash & hash over
\* `${chatbotId}_${sessionId}`, then Math.abs, 8 hex digits, and the
\* UUID-shaped template cut to 36 characters.
RECURSIVE hash_RealTimeChatManager(_, _)
hash_RealTimeChatManager(combined, hash) ==
  IF combined = <<>> THEN hash
  ELSE hash_RealTimeChatManager(Tail(combined),
                   AddChar32(Sub32(Shl5(hash), hash), Head(combined)))

generateConversationId_RealTimeChatManager(chatbotId, sessionId) ==
  LET combined == chatbotId \o <<Underscore>> \o sessionId
      hashHex == HexDigits8(Abs32(hash_RealTimeChatManager(combined, <<0, 0>>)))
      h(from, to) == HexString(Substring(hashHex, from, to))
      whole == HexString(hashHex)
  IN  \* 8 + 1 + 4 + 1 + 4 + 1 + 4 + 1 = 24 characters, then 12 of the 16
      \* characters of hashHex + hashHex survive substring(0, 36).
      h(0, 8) \o "-" \o h(0, 4) \o "-4" \o h(1, 4) \o "-8" \o h(0, 3)
        \o "-" \o whole \o h(0, 4)

\* generateConversationId, SocketChatManager's copy: the 32-bit rolling hash
\* hash = ((hash << 5) - hash) + char; hash = hash & hash over
\* `${chatbotId}_${sessionId}`, then Math.abs, 8 hex digits, and the
\* UUID-shaped template cut to 36 characters.
RECURSIVE hash_SocketChatManager(_, _)
hash_SocketChatManager(combined, hash) ==
  IF combined = <<>> THEN hash
  ELSE hash_SocketChatManager(Tail(combined),
                   AddChar32(Sub32(Shl5(hash), hash), Head(combined)))

\* A variant of the derivation that prints the hash without Math.abs.
generateConversationId_signed(chatbotId, sessionId) ==
  LET combined == chatbotId \o <<Underscore>> \o sessionId
      hashHex == HexDigits8(hash_SocketChatManager(combined, <<0, 0>>))
      h(from, to) == HexString(Substring(hashHex, from, to))
      whole == HexString(hashHex)
  IN  h(0, 8) \o "-" \o h(0, 4) \o "-4" \o h(1, 4) \o "-8" \o h(0, 3)
        \o "-" \o whole \o h(0, 4)

generateConversationId_SocketChatManager(chatbotId, sessionId) ==
  LET combined == chatbotId \o <<Underscore>> \o sessionId
      hashHex == HexDigits8(Abs32(hash_SocketChatManager(combined, <<0, 0>>)))
      h(from, to) == HexString(Substring(hashHex, from, to))
      whole == HexString(hashHex)
  IN  \* 8 + 1 + 4 + 1 + 4 + 1 + 4 + 1 = 24 characters, then 12 of the 16
      \* characters of hashHex + hashHex survive substring(0, 36).
      h(0, 8) \o "-" \o h(0, 4) \o "-4" \o h(1, 4) \o "-8" \o h(0, 3)
        \o "-" \o whole \o h(0, 4)

\* generateConversationId, RealtimeService's copy: the 32-bit rolling hash
\* hash = ((hash << 5) - hash) + char; hash = hash & hash over
\* `${chatbotId}_${sessionId}`, then Math.abs, 8 hex digits, and the
\* UUID-shaped template cut to 36 characters.
RECURSIVE hash_RealtimeService(_, _)
hash_RealtimeService(combined, hash) ==
  IF combined = <<>> THEN hash
  ELSE hash_RealtimeService(Tail(combined),
                   AddChar32(Sub32(Shl5(hash), hash), Head(combined)))

generateConversationId_RealtimeService(chatbotId, sessionId) ==
  LET combined == chatbotId \o <<Underscore>> \o sessionId
      hashHex == HexDigits8(Abs32(hash_RealtimeService(combined, <<0, 0>>)))
      h(from, to) == HexString(Substring(hashHex, from, to))
      whole == HexString(hashHex)
  IN  \* 8 + 1 + 4 + 1 + 4 + 1 + 4 + 1 = 24 characters, then 12 of the 16
      \* characters of hashHex + hashHex survive substring(0, 36).
      h(0, 8) \o "-" \o h(0, 4) \o "-4" \o h(1, 4) \o "-8" \o h(0, 3)
        \o "-" \o whole \o h(0, 4)

\* Stand-in for the SHA-1 digest inside uuid-ossp's uuid_generate_v5 (library
\* code outside the repository): 32 hex digits that depend on every code unit
\* of the name.  Nothing below relies on its values, only on the version and
\* variant digits that uuid_generate_v5 forces on top of it.
RECURSIVE DigestSum(_, _, _)
DigestSum(text, i, j) ==
  IF text = <<>> THEN 0
  ELSE (Head(text) * (i + 7 * j) + DigestSum(Tail(text), i, j + 1)) % 65521

Sha1Digits(text) == [i \in 1..32 |-> DigestSum(text, i, 1) % 16]

\* uuid_generate_v5(nil namespace, name): the digest with the version digit
\* set to 5 and the variant bits set to 10xx (RFC 4122), printed 8-4-4-4-12.
uuid_generate_v5(name) ==
  LET d == Sha1Digits(name)
      v == [d EXCEPT ![13] = 5, ![17] = 8 + (d[17] % 4)]
  IN  HexString(SubSeq(v, 1, 8)) \o "-" \o HexString(SubSeq(v, 9, 12)) \o "-"
        \o HexString(SubSeq(v, 13, 16)) \o "-" \o HexString(SubSeq(v, 17, 20))
        \o "-" \o HexString(SubSeq(v, 21, 32))

\* The conversation id add_session_message derives (the function as the last
\* migration leaves it): uuid v5 of chatbot_id || '_session_' || session_id.
ServerConversationId(chatbot_id_param, session_id_param) ==
  uuid_generate_v5(chatbot_id_param \o SessionInfix \o session_id_param)


\* ------------------------------------------------------------------------
\* Part 2: the Store, the customer widget, the embed view, the dashboards
\* ------------------------------------------------------------------------

\* How many times the customer calls sendMessage under Spec.
MaxSends == 1

\* How many dashboard / admin handlers are invoked in total under Spec.
MaxOps == 2

\* How many dashboard / admin handlers are invoked in total under
\* SpecOwnership.
MaxAgentOps == 4

\* sendMessage calls of the customer under SpecEnsure.
MaxCalls == 2

\* sendMessage calls of the customer, and handler invocations of the agents,
\* under SpecEscalation.
MaxFlagged == 2
MaxHandOffs == 2

\* sendMessage calls of the customer, and handler invocations of the agent,
\* under SpecRequest.
MaxRequests == 1
MaxAnswers == 1

\* subscribe calls made to the subscription managers, and change events of
\* the Store, under SpecSubscriptions.
MaxSubscribes == 3
MaxEvents == 1

\* subscribe calls made to the socket manager, and losses of its transport,
\* under SpecReconnect.
MaxJoins == 2
MaxDrops == 1

\* Deliveries of message events to each view under SpecDelivery.
MaxDeliveries == 2

\* sendMessage calls of the widget that can be in flight together.
MaxInFlight == 2
Slots == 1..MaxInFlight

\* The one chatbot ("b1") and the one customer session ("s1") of the model.
BotId == <<98, 49>>
SessionId == <<115, 49>>
Chatbots == {BotId}

Agents == {"A", "B"}
NoAgent == "none"

\* The browser sessions of the Agents page that call useAgents' functions.
Admins == {1, 2}

\* An admin session with no assignAgentToChatbot call under way.
NoCall == [pc |-> "idle", agent_id |-> NoAgent, chatbot_id |-> <<>>, result |-> "none"]

\* The derivation input outside SpecId: no pair has been drawn.
NoInput == <<>>

\* The id the widget and RealTimeChatManager use for (BotId, SessionId), the
\* id SocketChatManager uses, and the id add_session_message uses.
WidgetConv == generateConversationId_useChatbot(BotId, SessionId)
ManagerConv == generateConversationId_RealTimeChatManager(BotId, SessionId)
SocketConv == generateConversationId_SocketChatManager(BotId, SessionId)
ServerConv == ServerConversationId(BotId, SessionId)

\* `conversations.find(...)` that found nothing: its chatbot_id and session_id
\* are undefined.
\* The components that subscribe to conversations, and the conversations
\* they subscribe to.
Subscribers == {"s1", "s2"}
Topics == {"c1", "c2"}
NoTopic == ""

\* The three managers of Supabase Realtime channels: chatManager,
\* realtimeService and the socket manager in its Supabase fallback mode.
RealTimeChatManager == "RealTimeChatManager"
RealtimeService == "RealtimeService"
SocketChatManager == "SocketChatManager"
Managers == {RealTimeChatManager, RealtimeService, SocketChatManager}

\* The tables whose changes a channel listens to.
Tables == {"messages", "conversation_agents"}

\* The entry of a manager's map for a key without a channel.
NoChannel == 0

\* The messages rows whose insert events the views receive: a customer
\* message and an agent's message of the conversation.
MessageRows ==
  {[id |-> "m1", conversation_id |-> ManagerConv, content |-> "customer",
    role |-> "user", agent_id |-> NoAgent],
   [id |-> "m2", conversation_id |-> ManagerConv, content |-> "agent",
    role |-> "assistant", agent_id |-> "A"]}

\* messages.created_at of the rows of MessageRows: the customer's message was
\* stored before the agent's.
created_at(id) == IF id = "m1" THEN 1 ELSE 2

NoRow == [id |-> "", chatbot_id |-> <<>>, session_id |-> <<>>]

AlertTakeOver == "Failed to take over conversation"
AlertHandBack == "Failed to hand conversation back to bot"
AlertSend == "Failed to send message"
AlertAssign == "Failed to assign agent to conversation"
NoAlert == ""

\* The three views that show a conversation's messages: the customer widget
\* (useChatbot), the agent dashboard and the social chat view.
Views == {"widget", "dashboard", "social"}


VARIABLES
  \* the Store
  conversations,        \* rows [id, chatbot_id, session_id]
  messages,             \* rows in created_at order
  conversation_agents,  \* rows [conversation_id, agent_id, knowledge_base_enabled]
  agents,               \* ids of the agents rows
  agent_assignments,    \* rows [agent_id, chatbot_id]
  agent_notifications,  \* rows in created_at order
  \* the customer widget (useChatbot)
  w_pc,                 \* where each sendMessage call is suspended
  w_closure,            \* the hook state each sendMessage call closed over
  w_data,               \* `data` of ensureConversation: did its select find the row
  w_messages,           \* the message list the widget shows (useState `messages`)
  agentTakenOver, knowledgeBaseEnabled, assignedAgent, isEscalated,   \* useState values
  lookups,              \* handleAgentTakeover calls that await their agent row
  isTyping,             \* the typing indicator (useState `isTyping`)
  timers,               \* fallback timers of sendMessage that have not fired
  w_seen,               \* messages rows whose insert event the widget has handled
  w_outcome,            \* how each sendMessage call ended
  agentChannel,         \* conversation_agents events not yet delivered
  sends,                \* sendMessage calls the customer may still make
  \* the embed view (initializeSocialChat)
  e_pc, e_data, e_conversationId,
  \* the agent dashboards, one per agent
  d_pc, d_arg, availableConversations, assignedConversations,
  selectedConversation, alerted,
  actor,                \* the agent whose handler was invoked last
  ops,                  \* handler invocations the agents and the admin may still make
  \* the derivation check of Part 1
  id_pc, id_input, id_out,
  \* the message lists of the other two views, and the deliveries to come
  d_messages,           \* the dashboard's `messages` state, one per agent
  s_messages,           \* the `messages` state of SocialChatInterface
  deliveries,           \* message events each view's onMessage may still get
  \* the Supabase Realtime client and the managers of its channels
  client_channels,      \* the channels that are open: [id, manager, table, conversation_id, callback]
  messageChannels,      \* RealTimeChatManager.messageChannels, by conversation id
  agentChannels,        \* RealTimeChatManager.agentChannels, by conversation id
  channels,             \* RealtimeService.channels, by the conversation of `messages-<id>`
  supabaseSubscriptions, \* SocketChatManager.supabaseSubscriptions (fallback mode)
  held,                 \* the conversation each component is subscribed to, per manager
  received,             \* events each component's callbacks were called with, per manager
  subscribes,           \* subscribe calls the components may still make
  events,               \* change events the Store may still publish
  \* socketChatManager and its socket
  connected,            \* SocketChatManager.connected
  currentConversation,  \* SocketChatManager.currentConversation
  currentUser,          \* SocketChatManager.currentUser (the subscribing component)
  listeners,            \* the new_message handlers registered on the socket
  transport,            \* the socket: "closed", "connecting", "open" or "lost"
  sendBuffer,           \* packets emitted while the socket was not open
  rooms,                \* the conversation rooms the server has the socket in
  drops,                \* losses of the transport still to come
  \* the socket manager that falls back to Supabase Realtime
  useSupabaseRealtime,  \* SocketChatManager.useSupabaseRealtime
  connectionAttempts,   \* SocketChatManager.connectionAttempts
  initializing,         \* the promise of initializeConnection is pending
  sendResult,           \* how each component's last sendMessage call ended
  \* calls of the services' methods
  toggled,              \* how the last toggleKnowledgeBase call ended
  assigning             \* the assignAgentToChatbot call of each admin session

storeVars == <<conversations, messages, conversation_agents, agents,
               agent_assignments, agent_notifications>>
widgetVars == <<w_pc, w_closure, w_data, w_messages, agentTakenOver,
                knowledgeBaseEnabled, assignedAgent, lookups, isTyping, timers, w_seen,
                isEscalated, w_outcome, sends>>
embedVars == <<e_pc, e_data, e_conversationId>>
dashVars == <<d_pc, d_arg, availableConversations, assignedConversations,
              selectedConversation, alerted, actor, ops>>
idVars == <<id_pc, id_input, id_out>>
viewVars == <<d_messages, s_messages, deliveries>>
managerVars == <<client_channels, messageChannels, agentChannels, channels,
                 supabaseSubscriptions, held, received, subscribes, events>>
fallbackVars == <<useSupabaseRealtime, connectionAttempts, initializing, sendResult>>
socketVars == <<connected, currentConversation, currentUser, listeners, transport,
                sendBuffer, rooms, drops, fallbackVars>>
apiVars == <<toggled, assigning>>
subVars == <<viewVars, managerVars, socketVars, apiVars>>
vars == <<storeVars, widgetVars, agentChannel, embedVars, dashVars, idVars, subVars>>

StoreInit ==
  /\ conversations = {}
  /\ messages = <<>>
  /\ conversation_agents = {}
  /\ agents = Agents
  /\ agent_assignments = {[agent_id |-> a, chatbot_id |-> BotId] : a \in Agents}
  /\ agent_notifications = <<>>

\* The widget after initializeChat in embedded mode (the session id comes
\* with the chatbot): the conversation id is set, so the subscription of the
\* effect at useChatbot.ts:59 is live, and every flag has its reset value.
WidgetInit ==
  /\ w_pc = [k \in Slots |-> "idle"]
  /\ w_closure = [k \in Slots |-> [agentTakenOver |-> FALSE, isEscalated |-> FALSE]]
  /\ w_data = [k \in Slots |-> FALSE]
  /\ w_messages = <<>>
  /\ agentTakenOver = FALSE
  /\ knowledgeBaseEnabled = TRUE
  /\ assignedAgent = NoAgent
  /\ lookups = {}
  /\ isTyping = FALSE
  /\ timers = 0
  /\ w_seen = {}
  /\ isEscalated = FALSE
  /\ w_outcome = [k \in Slots |-> "none"]
  /\ agentChannel = <<>>

EmbedInit ==
  /\ e_pc = "mount"
  /\ e_data = FALSE
  /\ e_conversationId = ""

DashInit ==
  /\ d_pc = [a \in Agents |-> "idle"]
  /\ d_arg = [a \in Agents |-> NoRow]
  /\ availableConversations = [a \in Agents |-> {}]
  /\ assignedConversations = [a \in Agents |-> {}]
  /\ selectedConversation = [a \in Agents |-> ""]
  /\ alerted = [a \in Agents |-> NoAlert]
  /\ actor = NoAgent

IdIdle ==
  /\ id_pc = "off"
  /\ id_input = NoInput
  /\ id_out = <<>>

\* No method of the services has been called from outside the handlers.
ApiIdle ==
  /\ toggled = "none"
  /\ assigning = [p \in Admins |-> NoCall]

\* No view has received a message and none is to come.
ViewIdle ==
  /\ ApiIdle
  /\ d_messages = [a \in Agents |-> <<>>]
  /\ s_messages = <<>>
  /\ deliveries = [v \in Views |-> 0]

\* The managers as constructed: no channel, nobody subscribed.
ManagersInit ==
  /\ client_channels = {}
  /\ messageChannels = [c \in Topics |-> NoChannel]
  /\ agentChannels = [c \in Topics |-> NoChannel]
  /\ channels = [c \in Topics |-> NoChannel]
  /\ supabaseSubscriptions = <<>>
  /\ held = [m \in Managers |-> [s \in Subscribers |-> NoTopic]]
  /\ received = [m \in Managers |-> [s \in Subscribers |-> 0]]

ManagersIdle == ManagersInit /\ subscribes = 0 /\ events = 0

\* socketChatManager as constructed (autoConnect: false).
SocketInit ==
  /\ connected = FALSE
  /\ currentConversation = NoTopic
  /\ currentUser = NoTopic
  /\ listeners = {}
  /\ transport = "closed"
  /\ sendBuffer = <<>>
  /\ rooms = {}
  /\ useSupabaseRealtime = FALSE
  /\ connectionAttempts = 0
  /\ initializing = FALSE
  /\ sendResult = [s \in Subscribers |-> "none"]

SocketIdle == SocketInit /\ drops = 0

SubIdle == ViewIdle /\ ManagersIdle /\ SocketIdle

\* The customer may call sendMessage `s` more times, and `o` more dashboard or
\* admin handlers may be invoked.
Budget(s, o) == sends = s /\ ops = o

Init ==
  StoreInit /\ WidgetInit /\ EmbedInit /\ DashInit /\ IdIdle /\ SubIdle /\ Budget(MaxSends, MaxOps)

\* ---- the Store's tables ------------------------------------------------

ConversationIds == {r.id : r \in conversations}

RowsOf(c) == {r \in conversation_agents : r.conversation_id = c}

\* The Store after `insert into conversations` of `row`: the primary key on
\* id rejects a second row with the same id (the ON CONFLICT (id) clause of
\* add_session_message names that key).
InsertConversation(row) ==
  IF row.id \in ConversationIds
  THEN [error |-> TRUE, rows |-> conversations]
  ELSE [error |-> FALSE, rows |-> conversations \cup {row}]

\* The insert policy of messages: the conversation exists, has a session id,
\* and its chatbot is active (every chatbot of the model is).
MessageInsertAllowed(c) ==
  \E r \in conversations : r.id = c /\ r.chatbot_id \in Chatbots /\ r.session_id # <<>>

\* A variant of Message that stores every row as a customer's.
Message_asCustomer(c, content, role, agent) ==
  [conversation_id |-> c, content |-> content, role |-> "user", agent_id |-> agent]

\* The messages row an insert of (conversation_id, content, role, agent_id)
\* stores.
Message(c, content, role, agent) ==
  [conversation_id |-> c, content |-> content, role |-> role, agent_id |-> agent]

\* The Store after `insert into conversation_agents`: a conversation has at
\* most one assignment (Conflict on a second one), and the agent and the
\* conversation it references exist.
InsertConversationAgent(c, a, kb) ==
  IF RowsOf(c) # {} \/ a \notin agents \/ c \notin ConversationIds
  THEN [error |-> TRUE, rows |-> conversation_agents]
  ELSE [error |-> FALSE,
        rows |-> conversation_agents \cup
                 {[conversation_id |-> c, agent_id |-> a, knowledge_base_enabled |-> kb]}]

\* The change events of conversation_agents rows `rows` as the widget's agent
\* channel (filter conversation_id = the widget's conversation) queues them.
Event(type, r) ==
  [eventType |-> type, agent_id |-> r.agent_id,
   knowledge_base_enabled |-> r.knowledge_base_enabled]

RECURSIVE SetToSeq(_)
SetToSeq(S) ==
  IF S = {} THEN <<>>
  ELSE LET x == CHOOSE x \in S : TRUE IN <<x>> \o SetToSeq(S \ {x})

Publish(channel, type, rows) ==
  channel \o SetToSeq({Event(type, r) : r \in {x \in rows : x.conversation_id = WidgetConv}})

\* ServerConversationId on the argument pairs the dashboards can pass: the
\* chatbot and session of a conversation row, or those of NoRow.
ServerIds ==
  [p \in {<<BotId, SessionId>>, <<NoRow.chatbot_id, NoRow.session_id>>} |->
     ServerConversationId(p[1], p[2])]

\* add_session_message as the last migration defines it: the chatbot must
\* exist, the conversation id is derived on the server, the conversation row
\* is upserted on its id, and the message is inserted under the derived id
\* (messages.agent_id references agents(id)).  An exception rolls back the
\* whole call.
add_session_message(chatbot_id_param, session_id_param, content_param, role_param, agent_id_param) ==
  LET conversation_id_var == ServerIds[<<chatbot_id_param, session_id_param>>]
      row == [id |-> conversation_id_var, chatbot_id |-> chatbot_id_param,
              session_id |-> session_id_param]
  IN  IF chatbot_id_param \notin Chatbots
        \/ (agent_id_param # NoAgent /\ agent_id_param \notin agents)
      THEN [error |-> TRUE, conversations |-> conversations, messages |-> messages]
      ELSE [error |-> FALSE,
            conversations |-> IF conversation_id_var \in ConversationIds
                              THEN conversations
                              ELSE conversations \cup {row},
            messages |-> Append(messages,
                           Message(conversation_id_var, content_param, role_param, agent_id_param))]

\* ---- the customer widget: useChatbot.sendMessage -----------------------

\* An entry of the widget's message list (ChatbotMessage): the entries the
\* widget adds itself carry an id made of their kind and a timestamp, the
\* ones that arrive on the subscription carry the id of the messages row.
Local(kind, sender) == [id |-> kind, sender |-> sender]

\* sendMessage is entered as call k: the function closes over the hook state
\* of the render it belongs to and shows the customer's text at once.  The
\* hook does not wait for a running call (the voice handler of the chat page
\* calls it while one is in flight); a new call takes the first free slot.
sendMessage_begin(k) ==
  /\ w_pc[k] = "idle"
  /\ \A j \in Slots : j < k => w_pc[j] # "idle"
  /\ sends > 0
  /\ sends' = sends - 1
  /\ w_closure' = [w_closure EXCEPT
                     ![k] = [agentTakenOver |-> agentTakenOver, isEscalated |-> isEscalated]]
  /\ w_messages' = Append(w_messages, Local("user", "user"))
  /\ isTyping' = TRUE
  /\ w_outcome' = [w_outcome EXCEPT ![k] = "pending"]
  /\ w_pc' = [w_pc EXCEPT ![k] = "ensure"]
  /\ UNCHANGED <<storeVars, w_data, agentTakenOver, knowledgeBaseEnabled, assignedAgent, lookups, timers, w_seen,
                 isEscalated, agentChannel, embedVars, dashVars, idVars, subVars>>

\* RealTimeChatManager.ensureConversation up to its first await: the select
\* of the row with the derived id.
ensureConversation_select(k) ==
  /\ w_pc[k] = "ensure"
  /\ w_data' = [w_data EXCEPT ![k] = (ManagerConv \in ConversationIds)]
  /\ w_pc' = [w_pc EXCEPT ![k] = "insert"]
  /\ UNCHANGED <<storeVars, w_closure, w_messages, isTyping, agentTakenOver, knowledgeBaseEnabled, assignedAgent, lookups, timers, w_seen,
                 isEscalated, w_outcome, sends, agentChannel, embedVars, dashVars, idVars, subVars>>

\* A variant of ensureConversation_raises that reads the error of the insert.
ensureConversation_raisesOnError(error) == error

\* Whether ensureConversation raises on the result of its insert: the result
\* is awaited and dropped, its error is never read.
ensureConversation_raises(error) == FALSE

\* A variant of sendMessage_catch that lets the error leave sendMessage.
sendMessage_rethrows(k) ==
  /\ w_pc' = [w_pc EXCEPT ![k] = "idle"]
  /\ w_outcome' = [w_outcome EXCEPT ![k] = "raised"]
  /\ w_messages' = w_messages
  /\ isTyping' = isTyping

\* The catch block of sendMessage: the apology is shown, the typing indicator
\* is turned off and the call ends.
sendMessage_catch(k) ==
  /\ w_pc' = [w_pc EXCEPT ![k] = "idle"]
  /\ w_outcome' = [w_outcome EXCEPT ![k] = "error"]
  /\ w_messages' = Append(w_messages, Local("bot-error", "bot"))
  /\ isTyping' = FALSE

\* The rest of RealTimeChatManager.ensureConversation: the insert when the
\* select found no row, and the return.  A raised error would end sendMessage
\* in its catch block.
ensureConversation_insert(k) ==
  /\ w_pc[k] = "insert"
  /\ LET res == IF w_data[k]
                THEN [error |-> FALSE, rows |-> conversations]
                ELSE InsertConversation([id |-> ManagerConv, chatbot_id |-> BotId,
                                         session_id |-> SessionId])
     IN  /\ conversations' = res.rows
         /\ IF ensureConversation_raises(res.error)
            THEN sendMessage_catch(k)
            ELSE /\ w_pc' = [w_pc EXCEPT ![k] = "sendUser"]
                 /\ UNCHANGED <<w_outcome, w_messages, isTyping>>
  /\ UNCHANGED <<messages, conversation_agents, agents, agent_assignments,
                 agent_notifications, w_closure, w_data, agentTakenOver,
                 knowledgeBaseEnabled, assignedAgent, lookups, timers, w_seen, isEscalated, sends,
                 agentChannel, embedVars,
                 dashVars, idVars, subVars>>

\* chatManager.sendMessage(conversationId, userMessage, 'user'): a rejected
\* insert is thrown and ends sendMessage in its catch block.
sendMessage_user(k) ==
  /\ w_pc[k] = "sendUser"
  /\ IF MessageInsertAllowed(ManagerConv)
     THEN /\ messages' = Append(messages, Message(ManagerConv, "customer", "user", NoAgent))
          /\ w_pc' = [w_pc EXCEPT ![k] = "check"]
          /\ UNCHANGED <<w_outcome, w_messages, isTyping>>
     ELSE /\ messages' = messages
          /\ sendMessage_catch(k)
  /\ UNCHANGED <<conversations, conversation_agents, agents, agent_assignments,
                 agent_notifications, w_closure, w_data, agentTakenOver, knowledgeBaseEnabled, assignedAgent, lookups, timers, w_seen,
                 isEscalated, sends, agentChannel, embedVars, dashVars, idVars, subVars>>

\* The value `if (agentTakenOver)` reads after checkAgentTakeover: the
\* constant of the closure, not the state checkAgentTakeover has just set.
sendMessage_takenOver(k) == w_closure[k].agentTakenOver

\* checkAgentTakeover(conversationId) followed by the guard of sendMessage.
\* maybeSingle yields the row when exactly one matches and no data otherwise;
\* the state setters act on the next render.
checkAgentTakeover(k) ==
  /\ w_pc[k] = "check"
  /\ LET rows == RowsOf(ManagerConv)
         agentAssignment == IF Cardinality(rows) = 1 THEN CHOOSE r \in rows : TRUE ELSE NoRow
     IN  IF Cardinality(rows) = 1
         THEN /\ agentTakenOver' = TRUE
              /\ assignedAgent' = agentAssignment.agent_id
              /\ knowledgeBaseEnabled' = agentAssignment.knowledge_base_enabled
         ELSE /\ agentTakenOver' = FALSE
              /\ assignedAgent' = NoAgent
              /\ knowledgeBaseEnabled' = TRUE
  /\ IF sendMessage_takenOver(k)
     THEN /\ w_pc' = [w_pc EXCEPT ![k] = "idle"]
          /\ w_outcome' = [w_outcome EXCEPT ![k] = "skipped"]
          /\ isTyping' = FALSE
     ELSE /\ w_pc' = [w_pc EXCEPT ![k] = "sentiment"]
          /\ w_outcome' = w_outcome
          /\ isTyping' = isTyping
  /\ UNCHANGED <<storeVars, w_closure, w_data, w_messages, lookups, timers, w_seen, isEscalated, sends,
                 agentChannel, embedVars, dashVars, idVars, subVars>>

\* A variant of escalateToHumanAgent_assignments in which the escalation
\* assigns the conversation to the agent it notifies.
escalateToHumanAgent_takesOver(conversationId, agentId) ==
  InsertConversationAgent(conversationId, agentId, TRUE).rows

\* The conversation_agents table after escalateToHumanAgent has notified
\* agentId: the function reads agent_assignments and writes
\* agent_notifications, nothing else.
escalateToHumanAgent_assignments(conversationId, agentId) == conversation_agents

\* escalateToHumanAgent: the first agent_assignments row of the chatbot (no
\* order is asked for, so any of them) gets an escalation notification; with
\* no such row nothing is written.  The insert can fail in the Store
\* (notificationError); the error is logged.  Nothing is returned or thrown.
escalateToHumanAgent(conversationId) ==
  LET assignments == {r \in agent_assignments : r.chatbot_id = BotId}
  IN  IF assignments = {}
      THEN UNCHANGED <<agent_notifications, conversation_agents>>
      ELSE \E first \in assignments, notificationError \in BOOLEAN :
             IF notificationError
             THEN UNCHANGED <<agent_notifications, conversation_agents>>
             ELSE /\ agent_notifications' =
                       Append(agent_notifications,
                              [agent_id |-> first.agent_id, conversation_id |-> conversationId,
                               type |-> "escalation", is_read |-> FALSE])
                  /\ conversation_agents' =
                       escalateToHumanAgent_assignments(conversationId, first.agent_id)

\* The sentiment step of sendMessage: recentMessages always holds the message
\* being sent, so the Classifier runs unless the closure says escalated.  On
\* shouldEscalate escalateToHumanAgent is awaited and then, whatever it did,
\* the conversation is marked escalated, the escalation notice is shown and
\* sendMessage returns; otherwise the Responder is called
\* (generateChatResponse is in flight).
analyzeSentiment(k) ==
  /\ w_pc[k] = "sentiment"
  /\ \E shouldEscalate \in BOOLEAN :
       IF ~w_closure[k].isEscalated /\ ~w_closure[k].agentTakenOver /\ shouldEscalate
       THEN /\ escalateToHumanAgent(ManagerConv)
            /\ isEscalated' = TRUE
            /\ w_messages' = Append(w_messages, Local("escalation", "bot"))
            /\ w_pc' = [w_pc EXCEPT ![k] = "idle"]
            /\ w_outcome' = [w_outcome EXCEPT ![k] = "escalated"]
            /\ isTyping' = FALSE
       ELSE /\ UNCHANGED <<agent_notifications, conversation_agents>>
            /\ isEscalated' = isEscalated
            /\ w_messages' = w_messages
            /\ w_pc' = [w_pc EXCEPT ![k] = "responder"]
            /\ w_outcome' = w_outcome
            /\ isTyping' = isTyping
  /\ UNCHANGED <<conversations, messages, agents,
                 agent_assignments, w_closure, w_data, agentTakenOver, knowledgeBaseEnabled, assignedAgent, lookups, timers, w_seen,
                 sends, agentChannel, embedVars, dashVars, idVars, subVars>>

\* generateChatResponse returns (or fails) and sendMessage continues: the
\* reply is stored with chatManager.sendMessage(conversationId,
\* response.message, 'assistant') and the 2-second fallback timer is set; a
\* failure ends in the catch block.
generateChatResponse_return(k) ==
  /\ w_pc[k] = "responder"
  /\ \E ok \in BOOLEAN :
       IF ok /\ MessageInsertAllowed(ManagerConv)
       THEN /\ messages' = Append(messages, Message(ManagerConv, "reply", "assistant", NoAgent))
            /\ w_outcome' = [w_outcome EXCEPT ![k] = "replied"]
            /\ w_pc' = [w_pc EXCEPT ![k] = "idle"]
            /\ w_messages' = w_messages
            /\ isTyping' = isTyping
            /\ timers' = timers + 1
       ELSE /\ messages' = messages
            /\ timers' = timers
            /\ sendMessage_catch(k)
  /\ UNCHANGED <<conversations, conversation_agents, agents, agent_assignments,
                 agent_notifications, w_closure, w_data, agentTakenOver, knowledgeBaseEnabled, assignedAgent, lookups, w_seen,
                 isEscalated, sends, agentChannel, embedVars, dashVars, idVars, subVars>>

\* The ids of the messages rows, in the order of their insert (the Store
\* gives every row a uuid of its own).
RowIds == <<"r1", "r2", "r3", "r4", "r5", "r6", "r7", "r8">>

\* Whether id is the id of a messages row of the Store.
IsRowId(id) == \E i \in 1..Len(messages) : i \in DOMAIN RowIds /\ RowIds[i] = id

\* ChatbotMessage.text of a list entry: the content of the row for an entry
\* that came with an insert event, the customer's text for the entry
\* sendMessage adds at once, response.message for the fallback entry, and a
\* fixed text of their own for the notices.
text(msg) ==
  IF IsRowId(msg.id)
  THEN messages[CHOOSE i \in DOMAIN RowIds : RowIds[i] = msg.id].content
  ELSE CASE msg.id = "user" -> "customer"
         [] msg.id = "bot-fallback" -> "reply"
         [] OTHER -> msg.id

\* The callback of the setTimeout that sendMessage sets after it has stored
\* the reply: it adds the reply under a fallback id unless an entry of the bot
\* with that text is shown, and turns the typing indicator off.
sendMessage_timeout ==
  /\ timers > 0
  /\ timers' = timers - 1
  /\ LET exists == \E i \in 1..Len(w_messages) :
                     text(w_messages[i]) = "reply" /\ w_messages[i].sender = "bot"
     IN  w_messages' = IF exists THEN w_messages
                       ELSE Append(w_messages, Local("bot-fallback", "bot"))
  /\ isTyping' = FALSE
  /\ UNCHANGED <<storeVars, w_pc, w_closure, w_data, agentTakenOver, knowledgeBaseEnabled,
                 assignedAgent, lookups, w_seen, isEscalated, w_outcome, sends, agentChannel,
                 embedVars, dashVars, idVars, subVars>>

\* onAgentChange of the widget's subscription, for the oldest queued event.
\* INSERT starts handleAgentTakeover, which is not awaited: the handler
\* returns while the fetch of the agent row is under way.  DELETE clears the
\* takeover state and shows the hand-back notice; UPDATE sets
\* knowledgeBaseEnabled.  isEscalated is written by none of them.
onAgentChange ==
  /\ agentChannel # <<>>
  /\ LET payload == Head(agentChannel)
     IN  CASE payload.eventType = "INSERT" ->
                /\ lookups' = lookups \cup {payload}
                /\ UNCHANGED <<agentTakenOver, knowledgeBaseEnabled, assignedAgent, w_messages>>
           [] payload.eventType = "DELETE" ->
                /\ agentTakenOver' = FALSE
                /\ assignedAgent' = NoAgent
                /\ knowledgeBaseEnabled' = TRUE
                /\ w_messages' = Append(w_messages, Local("handback", "agent"))
                /\ lookups' = lookups
           [] payload.eventType = "UPDATE" ->
                /\ agentTakenOver' = agentTakenOver
                /\ assignedAgent' = assignedAgent
                /\ knowledgeBaseEnabled' = payload.knowledge_base_enabled
                /\ w_messages' = w_messages
                /\ lookups' = lookups
  /\ agentChannel' = Tail(agentChannel)
  /\ isEscalated' = isEscalated
  /\ UNCHANGED <<storeVars, w_pc, w_closure, w_data, w_outcome, sends, isTyping, timers, w_seen,
                 embedVars, dashVars, idVars, subVars>>

\* handleAgentTakeover(agentData) after its await: it gives up when the agent
\* row could not be fetched; otherwise it sets the takeover state from the
\* event's row and shows its greeting unless one is shown.
handleAgentTakeover(agentData) ==
  /\ agentData \in lookups
  /\ lookups' = lookups \ {agentData}
  /\ IF agentData.agent_id \in agents
     THEN /\ agentTakenOver' = TRUE
          /\ assignedAgent' = agentData.agent_id
          /\ knowledgeBaseEnabled' = agentData.knowledge_base_enabled
          /\ w_messages' =
               IF \E i \in 1..Len(w_messages) : w_messages[i].id = "agent-takeover"
               THEN w_messages
               ELSE Append(w_messages, Local("agent-takeover", "agent"))
     ELSE UNCHANGED <<agentTakenOver, knowledgeBaseEnabled, assignedAgent, w_messages>>
  /\ UNCHANGED <<storeVars, w_pc, w_closure, w_data, isEscalated, w_outcome, sends,
                 isTyping, timers, w_seen, agentChannel, embedVars, dashVars, idVars, subVars>>

\* The agent rows a handleAgentTakeover call can be given by an INSERT event.
AgentData ==
  {[eventType |-> "INSERT", agent_id |-> a, knowledge_base_enabled |-> kb] :
     a \in Agents, kb \in BOOLEAN}

\* ---- the embed view: initializeSocialChat ------------------------------

\* SocketChatManager.ensureConversation up to its first await: the select.
initializeSocialChat_select ==
  /\ e_pc = "mount"
  /\ e_data' = (SocketConv \in ConversationIds)
  /\ e_pc' = "insert"
  /\ UNCHANGED <<storeVars, widgetVars, agentChannel, e_conversationId, dashVars, idVars, subVars>>

\* The rest of SocketChatManager.ensureConversation (the insert when the
\* select found no row; its result is dropped as well and the surrounding try
\* only logs), and setConversationId with the id it returns.
initializeSocialChat_insert ==
  /\ e_pc = "insert"
  /\ conversations' = IF e_data
                      THEN conversations
                      ELSE InsertConversation([id |-> SocketConv, chatbot_id |-> BotId,
                                               session_id |-> SessionId]).rows
  /\ e_conversationId' = SocketConv
  /\ e_pc' = "ready"
  /\ UNCHANGED <<messages, conversation_agents, agents, agent_assignments,
                 agent_notifications, widgetVars, agentChannel, e_data, dashVars, idVars, subVars>>

\* ---- the agent dashboard (one handler in flight per dashboard) ---------

Find(rows, c) == IF \E r \in rows : r.id = c THEN CHOOSE r \in rows : r.id = c ELSE NoRow

\* What fetchAvailableConversations leaves in availableConversations when
\* the tables hold `convs` and `cas`: the conversations of the chatbots the
\* agent is assigned to that no conversation_agents row names; with no
\* agent_assignments row the list stays as it is.
available(a, convs, cas) ==
  LET chatbotIds == {r.chatbot_id : r \in {x \in agent_assignments : x.agent_id = a}}
      assignedIds == {r.conversation_id : r \in cas}
  IN  IF chatbotIds = {}
      THEN availableConversations[a]
      ELSE {c \in convs : /\ c.chatbot_id \in chatbotIds
                          /\ c.session_id # <<>>
                          /\ c.id \notin assignedIds}

\* What fetchAssignedConversations leaves in `conversations` (the dashboard's
\* list): the conversations whose assignment names the agent.
assigned(a, convs, cas) ==
  {c \in convs : \E r \in cas : r.agent_id = a /\ r.conversation_id = c.id}

\* fetchAvailableConversations as the dashboard runs it on mount.
fetchAvailableConversations(a) ==
  /\ availableConversations' =
       [availableConversations EXCEPT ![a] = available(a, conversations, conversation_agents)]
  /\ UNCHANGED <<storeVars, widgetVars, agentChannel, embedVars, d_pc, d_arg,
                 assignedConversations, selectedConversation, alerted, actor,
                 ops, idVars, subVars>>

\* fetchAssignedConversations as the dashboard runs it on mount and on every
\* conversation_agents change event.
fetchAssignedConversations(a) ==
  /\ assignedConversations' =
       [assignedConversations EXCEPT ![a] = assigned(a, conversations, conversation_agents)]
  /\ UNCHANGED <<storeVars, widgetVars, agentChannel, embedVars, d_pc, d_arg,
                 availableConversations, selectedConversation, alerted, actor,
                 ops, idVars, subVars>>

handleConversationSelect(a, conversationId) ==
  /\ \E c \in assignedConversations[a] : c.id = conversationId
  /\ selectedConversation' = [selectedConversation EXCEPT ![a] = conversationId]
  /\ UNCHANGED <<storeVars, widgetVars, agentChannel, embedVars, d_pc, d_arg,
                 availableConversations, assignedConversations, alerted, actor,
                 ops, idVars, subVars>>

\* A variant of handleManualIntervention_write that replaces the row of the
\* conversation instead of inserting beside it.
handleManualIntervention_upsert(conversationId, a) ==
  [error |-> FALSE,
   rows |-> (conversation_agents \ RowsOf(conversationId)) \cup
            {[conversation_id |-> conversationId, agent_id |-> a,
              knowledge_base_enabled |-> FALSE]}]

\* The write handleManualIntervention makes to take a conversation over: a
\* plain insert of {conversation_id, agent_id, knowledge_base_enabled: false}.
handleManualIntervention_write(conversationId, a) ==
  InsertConversationAgent(conversationId, a, FALSE)

\* A variant of handleManualIntervention_throws that goes on after an error.
handleManualIntervention_ignoresError(error) == FALSE

\* Whether handleManualIntervention gives up on the error of its insert
\* (`if (error) throw error`).
handleManualIntervention_throws(error) == error

\* handleManualIntervention(conversationId) up to its first await: the
\* insert.  An error is thrown to the catch block, which alerts the agent.
handleManualIntervention(a, c) ==
  /\ d_pc[a] = "idle"
  /\ ops > 0
  /\ c \in availableConversations[a]
  /\ LET res == handleManualIntervention_write(c.id, a)
     IN  IF handleManualIntervention_throws(res.error)
         THEN /\ alerted' = [alerted EXCEPT ![a] = AlertTakeOver]
              /\ UNCHANGED <<conversation_agents, agentChannel, d_pc>>
         ELSE /\ alerted' = [alerted EXCEPT ![a] = NoAlert]
              /\ conversation_agents' = res.rows
              /\ agentChannel' = Publish(agentChannel, "INSERT",
                                         res.rows \ conversation_agents)
              /\ d_pc' = [d_pc EXCEPT ![a] = "takeover"]
  /\ d_arg' = [d_arg EXCEPT ![a] = c]
  /\ actor' = a
  /\ ops' = ops - 1
  /\ UNCHANGED <<conversations, messages, agents, agent_assignments,
                 agent_notifications, widgetVars, embedVars, availableConversations,
                 assignedConversations, selectedConversation, idVars, subVars>>

\* The rest of handleManualIntervention: realtimeService.toggleKnowledgeBase
\* (an update of every row of the conversation), createNotification (thrown
\* when the insert fails: agent_notifications.agent_id references agents),
\* the takeover message through add_session_message (its result is dropped),
\* the refresh of both lists and the selection of the conversation.
handleManualIntervention_rest(a) ==
  /\ d_pc[a] = "takeover"
  /\ LET c == d_arg[a]
         updated == {[r EXCEPT !.knowledge_base_enabled = FALSE] : r \in RowsOf(c.id)}
         sent == add_session_message(c.chatbot_id, c.session_id, "takeover", "assistant", a)
     IN  /\ conversation_agents' = (conversation_agents \ RowsOf(c.id)) \cup updated
         /\ agentChannel' = Publish(agentChannel, "UPDATE", updated)
         /\ IF a \notin agents
            THEN /\ alerted' = [alerted EXCEPT ![a] = AlertTakeOver]
                 /\ UNCHANGED <<agent_notifications, conversations, messages,
                                selectedConversation, availableConversations,
                                assignedConversations>>
            ELSE /\ agent_notifications' =
                      Append(agent_notifications,
                             [agent_id |-> a, conversation_id |-> c.id,
                              type |-> "manual_request", is_read |-> FALSE])
                 /\ conversations' = sent.conversations
                 /\ messages' = sent.messages
                 /\ assignedConversations' =
                      [assignedConversations EXCEPT
                         ![a] = assigned(a, sent.conversations, conversation_agents')]
                 /\ availableConversations' =
                      [availableConversations EXCEPT
                         ![a] = available(a, sent.conversations, conversation_agents')]
                 /\ selectedConversation' = [selectedConversation EXCEPT ![a] = c.id]
                 /\ alerted' = alerted
  /\ d_pc' = [d_pc EXCEPT ![a] = "idle"]
  /\ UNCHANGED <<agents, agent_assignments, widgetVars, embedVars, d_arg,
                 actor, ops, idVars, subVars>>

\* The rest of handleManualIntervention when the Store fails the insert of
\* createNotification (a failure no constraint forces: the request does not
\* complete): toggleKnowledgeBase has run, createNotification throws, and the
\* catch block alerts the agent.  Nothing else is written and neither list is
\* refreshed.
handleManualIntervention_thrown(a) ==
  /\ d_pc[a] = "takeover"
  /\ LET c == d_arg[a]
         updated == {[r EXCEPT !.knowledge_base_enabled = FALSE] : r \in RowsOf(c.id)}
     IN  /\ conversation_agents' = (conversation_agents \ RowsOf(c.id)) \cup updated
         /\ agentChannel' = Publish(agentChannel, "UPDATE", updated)
  /\ alerted' = [alerted EXCEPT ![a] = AlertTakeOver]
  /\ d_pc' = [d_pc EXCEPT ![a] = "idle"]
  /\ UNCHANGED <<conversations, messages, agents, agent_assignments, agent_notifications,
                 widgetVars, embedVars, d_arg, availableConversations,
                 assignedConversations, selectedConversation, actor, ops, idVars, subVars>>

\* useAgents.assignAgentToConversation: the same insert with
\* knowledge_base_enabled: true; an error is thrown to the caller.
assignAgentToConversation(conversationId, a) ==
  /\ d_pc[a] = "idle"
  /\ ops > 0
  /\ LET res == InsertConversationAgent(conversationId, a, TRUE)
     IN  /\ conversation_agents' = res.rows
         /\ agentChannel' = Publish(agentChannel, "INSERT", res.rows \ conversation_agents)
         /\ alerted' = [alerted EXCEPT ![a] = IF res.error THEN AlertAssign ELSE NoAlert]
  /\ actor' = a
  /\ ops' = ops - 1
  /\ UNCHANGED <<conversations, messages, agents, agent_assignments,
                 agent_notifications, widgetVars, embedVars, d_pc, d_arg,
                 availableConversations, assignedConversations,
                 selectedConversation, idVars, subVars>>

\* handleSendMessage: the agent's text goes through add_session_message with
\* the chatbot_id and session_id of the selected conversation's list entry.
handleSendMessage(a) ==
  /\ d_pc[a] = "idle"
  /\ ops > 0
  /\ selectedConversation[a] # ""
  /\ LET conversation == Find(assignedConversations[a], selectedConversation[a])
         sent == add_session_message(conversation.chatbot_id, conversation.session_id,
                                     "agent", "assistant", a)
     IN  /\ conversations' = sent.conversations
         /\ messages' = sent.messages
         /\ alerted' = [alerted EXCEPT ![a] = IF sent.error THEN AlertSend ELSE NoAlert]
  /\ actor' = a
  /\ ops' = ops - 1
  /\ UNCHANGED <<conversation_agents, agents, agent_assignments, agent_notifications,
                 widgetVars, agentChannel, embedVars, d_pc, d_arg,
                 availableConversations, assignedConversations,
                 selectedConversation, idVars, subVars>>

\* handleHandBackToBot up to its second await: the hand-back message through
\* add_session_message, whose result is dropped.
handleHandBackToBot(a) ==
  /\ d_pc[a] = "idle"
  /\ ops > 0
  /\ selectedConversation[a] # ""
  /\ LET conversation == Find(assignedConversations[a], selectedConversation[a])
         sent == add_session_message(conversation.chatbot_id, conversation.session_id,
                                     "handback", "assistant", a)
     IN  /\ conversations' = sent.conversations
         /\ messages' = sent.messages
         /\ d_arg' = [d_arg EXCEPT ![a] = [conversation EXCEPT !.id = selectedConversation[a]]]
  /\ d_pc' = [d_pc EXCEPT ![a] = "handback"]
  /\ alerted' = [alerted EXCEPT ![a] = NoAlert]
  /\ actor' = a
  /\ ops' = ops - 1
  /\ UNCHANGED <<conversation_agents, agents, agent_assignments, agent_notifications,
                 widgetVars, agentChannel, embedVars, availableConversations,
                 assignedConversations, selectedConversation, idVars, subVars>>

\* A variant of handleHandBackToBot_deleted without the agent_id filter.
handleHandBackToBot_anyAgent(conversationId, a) == RowsOf(conversationId)

\* The rows the delete of handleHandBackToBot removes:
\* .eq('conversation_id', selectedConversation).eq('agent_id', currentAgent.id).
handleHandBackToBot_deleted(conversationId, a) ==
  {r \in RowsOf(conversationId) : r.agent_id = a}

\* The rest of handleHandBackToBot: the delete (a delete that matches no row
\* is no error), the refresh of the list, and the selection is cleared.
handleHandBackToBot_delete(a) ==
  /\ d_pc[a] = "handback"
  /\ LET gone == handleHandBackToBot_deleted(d_arg[a].id, a)
     IN  /\ conversation_agents' = conversation_agents \ gone
         /\ agentChannel' = Publish(agentChannel, "DELETE", gone)
  /\ assignedConversations' =
       [assignedConversations EXCEPT
          ![a] = assigned(a, conversations, conversation_agents')]
  /\ selectedConversation' = [selectedConversation EXCEPT ![a] = ""]
  /\ d_pc' = [d_pc EXCEPT ![a] = "idle"]
  /\ UNCHANGED <<conversations, messages, agents, agent_assignments,
                 agent_notifications, widgetVars, embedVars, d_arg,
                 availableConversations, alerted, actor, ops, idVars, subVars>>

\* ---- toggleKnowledgeBase of the two services ---------------------------

\* MaxToggles bounds the handler and method invocations under SpecToggle.
MaxToggles == 3

\* RealtimeService.toggleKnowledgeBase(conversationId, enabled): an update of
\* the conversation_agents rows of the conversation.  An update that matches
\* no row returns no error, so nothing is thrown.
toggleKnowledgeBase_RealtimeService(conversationId, enabled) ==
  LET updated == {[r EXCEPT !.knowledge_base_enabled = enabled] : r \in RowsOf(conversationId)}
  IN  [error |-> FALSE,
       updated |-> updated,
       rows |-> (conversation_agents \ RowsOf(conversationId)) \cup updated]

\* RealTimeChatManager.toggleKnowledgeBase(conversationId, enabled, agentId):
\* the same update with .eq('agent_id', agentId).
toggleKnowledgeBase_RealTimeChatManager(conversationId, enabled, agentId) ==
  LET matched == {r \in RowsOf(conversationId) : r.agent_id = agentId}
      updated == {[r EXCEPT !.knowledge_base_enabled = enabled] : r \in matched}
  IN  [error |-> FALSE,
       updated |-> updated,
       rows |-> (conversation_agents \ matched) \cup updated]

\* The bookkeeping of a toggleKnowledgeBase call of agent a with result res:
\* the rows are written, the change is published, an error is thrown.
Toggled(a, res) ==
  /\ d_pc[a] = "idle"
  /\ ops > 0
  /\ conversation_agents' = res.rows
  /\ agentChannel' = Publish(agentChannel, "UPDATE", res.updated)
  /\ toggled' = IF res.error THEN "thrown" ELSE "done"
  /\ actor' = a
  /\ ops' = ops - 1
  /\ UNCHANGED <<conversations, messages, agents, agent_assignments, agent_notifications,
                 widgetVars, embedVars, d_pc, d_arg, availableConversations,
                 assignedConversations, selectedConversation, alerted, idVars, viewVars,
                 managerVars, socketVars, assigning>>

\* realtimeService.toggleKnowledgeBase is called by agent a's console.
toggleKnowledgeBase(a, conversationId, enabled) ==
  Toggled(a, toggleKnowledgeBase_RealtimeService(conversationId, enabled))

\* chatManager.toggleKnowledgeBase is called by agent a's console.
toggleKnowledgeBase_chatManager(a, conversationId, enabled) ==
  Toggled(a, toggleKnowledgeBase_RealTimeChatManager(conversationId, enabled, a))

\* ---- the admin's Agents page -------------------------------------------

\* The conversation_agents rows deleteAgent removes: .eq('agent_id', agentId).
deleteAgent_conversationRows(agentId) ==
  {r \in conversation_agents : r.agent_id = agentId}

\* useAgents.deleteAgent: the agent's agent_assignments, its
\* conversation_agents rows and the agents row are deleted; the foreign keys
\* of agent_notifications (cascade) and messages (set null) follow.
deleteAgent(agentId) ==
  /\ agentId \in agents
  /\ ops > 0
  /\ agent_assignments' = {r \in agent_assignments : r.agent_id # agentId}
  /\ LET gone == deleteAgent_conversationRows(agentId)
     IN  /\ conversation_agents' = conversation_agents \ gone
         /\ agentChannel' = Publish(agentChannel, "DELETE", gone)
  /\ agents' = agents \ {agentId}
  /\ agent_notifications' =
       SelectSeq(agent_notifications, LAMBDA n : n.agent_id # agentId)
  /\ messages' = [i \in 1..Len(messages) |->
                    IF messages[i].agent_id = agentId
                    THEN [messages[i] EXCEPT !.agent_id = NoAgent]
                    ELSE messages[i]]
  /\ actor' = agentId
  /\ ops' = ops - 1
  /\ UNCHANGED <<conversations, widgetVars, embedVars, d_pc, d_arg,
                 availableConversations, assignedConversations,
                 selectedConversation, alerted, idVars, subVars>>

\* useAgents.markNotificationAsRead(notificationId): update of is_read on the
\* row with that id; the rows are identified by their position.
markNotificationAsRead(notificationId) ==
  /\ notificationId \in 1..Len(agent_notifications)
  /\ agent_notifications' =
       [agent_notifications EXCEPT ![notificationId].is_read = TRUE]
  /\ UNCHANGED <<conversations, messages, conversation_agents, agents, agent_assignments,
                 widgetVars, agentChannel, embedVars, dashVars, idVars, subVars>>

\* The insert of a row into agent_assignments: the Store refuses a second row
\* of an (agent, chatbot) pair with a Conflict and inserts nothing.
InsertAgentAssignment(agentId, chatbotId) ==
  LET row == [agent_id |-> agentId, chatbot_id |-> chatbotId]
  IN  IF row \in agent_assignments
      THEN [error |-> TRUE, rows |-> agent_assignments]
      ELSE [error |-> FALSE, rows |-> agent_assignments \cup {row}]

\* A variant of the test below that goes on to the insert whatever the select found.
assignAgentToChatbot_inserts(existing) == FALSE

\* assignAgentToChatbot: `if (existing) throw new Error('Agent is already
\* assigned to this chatbot')`.
assignAgentToChatbot_throws(existing) == existing

\* useAgents.assignAgentToChatbot up to its first await's return: the select
\* of the pair's row; on a row the call throws, else it goes on to the insert.
assignAgentToChatbot(p, agentId, chatbotId) ==
  /\ assigning[p].pc = "idle"
  /\ ops > 0
  /\ LET existing == [agent_id |-> agentId, chatbot_id |-> chatbotId] \in agent_assignments
     IN  assigning' = [assigning EXCEPT ![p] =
           IF assignAgentToChatbot_throws(existing)
           THEN [pc |-> "idle", agent_id |-> agentId, chatbot_id |-> chatbotId,
                 result |-> "already assigned"]
           ELSE [pc |-> "insert", agent_id |-> agentId, chatbot_id |-> chatbotId,
                 result |-> "none"]]
  /\ ops' = ops - 1
  /\ UNCHANGED <<storeVars, widgetVars, agentChannel, embedVars, d_pc, d_arg,
                 availableConversations, assignedConversations, selectedConversation,
                 alerted, actor, idVars, viewVars, managerVars, socketVars, toggled>>

\* assignAgentToChatbot after the select: the insert, `if (error) throw error`.
assignAgentToChatbot_insert(p) ==
  /\ assigning[p].pc = "insert"
  /\ LET res == InsertAgentAssignment(assigning[p].agent_id, assigning[p].chatbot_id)
     IN  /\ agent_assignments' = res.rows
         /\ assigning' = [assigning EXCEPT ![p].pc = "idle",
                            ![p].result = IF res.error THEN "conflict" ELSE "assigned"]
  /\ UNCHANGED <<conversations, messages, conversation_agents, agents, agent_notifications,
                 widgetVars, agentChannel, embedVars, dashVars, idVars, viewVars,
                 managerVars, socketVars, toggled>>

\* useAgents.removeAgentAssignment: the delete of the row of one pair.
removeAgentAssignment(agentId, chatbotId) ==
  /\ ops > 0
  /\ agent_assignments' =
       agent_assignments \ {[agent_id |-> agentId, chatbot_id |-> chatbotId]}
  /\ ops' = ops - 1
  /\ UNCHANGED <<conversations, messages, conversation_agents, agents, agent_notifications,
                 widgetVars, agentChannel, embedVars, d_pc, d_arg, availableConversations,
                 assignedConversations, selectedConversation, alerted, actor, idVars,
                 subVars>>

\* ---- the onMessage handlers of the three views -------------------------

\* Whether the list `prev` has an entry with the id `id`
\* (prev.some(msg => msg.id === id)).
some(prev, id) == \E i \in 1..Len(prev) : prev[i].id = id

\* A variant of onMessage_useChatbot that shows the new entry alone.
onMessage_replaces(prev, message) ==
  <<[id |-> message.id,
     sender |-> IF message.role = "user" THEN "user"
                ELSE IF message.agent_id # NoAgent THEN "agent" ELSE "bot"]>>

\* onMessage of the widget's subscription: the row becomes a ChatbotMessage
\* and is added unless an entry with its id is there.
onMessage_useChatbot(prev, message) ==
  LET newMessage == [id |-> message.id,
                     sender |-> IF message.role = "user" THEN "user"
                                ELSE IF message.agent_id # NoAgent THEN "agent" ELSE "bot"]
  IN  IF some(prev, newMessage.id) THEN prev ELSE Append(prev, newMessage)

\* A variant of onNewMessage_AgentDashboard that adds every message it gets.
onNewMessage_appendsAlways(prev, selected, data) ==
  IF data.conversationId = selected THEN Append(prev, data.message) ELSE prev

\* The callback the dashboard passes to subscribeNewMessage for the selected
\* conversation: events of another conversation are ignored, a message whose
\* id is in the list is skipped.
onNewMessage_AgentDashboard(prev, selected, data) ==
  IF data.conversationId = selected
  THEN IF some(prev, data.message.id) THEN prev ELSE Append(prev, data.message)
  ELSE prev

\* onMessage of SocialChatInterface.
onMessage_SocialChatInterface(prev, message) ==
  IF some(prev, message.id) THEN prev ELSE Append(prev, message)

\* What RealtimeService.subscribeNewMessage hands to its callback for the
\* insert of the row payload.new.
NewMessageData(new) ==
  [conversationId |-> new.conversation_id,
   message |-> [id |-> new.id, content |-> new.content, role |-> new.role,
                is_agent_message |-> new.agent_id # NoAgent, agent_id |-> new.agent_id]]

\* The insert event of `message` reaches view v.
Delivered(v) ==
  /\ deliveries[v] > 0
  /\ deliveries' = [deliveries EXCEPT ![v] = deliveries[v] - 1]

deliver_useChatbot(message) ==
  /\ Delivered("widget")
  /\ w_messages' = onMessage_useChatbot(w_messages, message)
  /\ isTyping' = (isTyping /\ message.role # "assistant")
  /\ UNCHANGED <<storeVars, w_pc, w_closure, w_data, agentTakenOver, knowledgeBaseEnabled, assignedAgent, lookups, timers, w_seen,
                 isEscalated, w_outcome, sends, agentChannel, embedVars, dashVars, idVars,
                 d_messages, s_messages, managerVars, socketVars, apiVars>>

deliver_AgentDashboard(a, message) ==
  /\ Delivered("dashboard")
  /\ selectedConversation[a] # ""
  /\ d_messages' =
       [d_messages EXCEPT
          ![a] = onNewMessage_AgentDashboard(d_messages[a], selectedConversation[a],
                                             NewMessageData(message))]
  /\ UNCHANGED <<storeVars, widgetVars, agentChannel, embedVars, dashVars, idVars,
                 s_messages, managerVars, socketVars, apiVars>>

deliver_SocialChatInterface(message) ==
  /\ Delivered("social")
  /\ s_messages' = onMessage_SocialChatInterface(s_messages, message)
  /\ UNCHANGED <<storeVars, widgetVars, agentChannel, embedVars, dashVars, idVars,
                 d_messages, managerVars, socketVars, apiVars>>

\* onMessage of the widget's subscription for the insert event of the i-th
\* messages row (filter conversation_id = the widget's conversation id): the
\* row is added unless an entry with its id is shown, and a row of role
\* 'assistant' turns the typing indicator off.
onMessage(i) ==
  /\ i \in 1..Len(messages)
  /\ i \in DOMAIN RowIds
  /\ i \notin w_seen
  /\ messages[i].conversation_id = WidgetConv
  /\ w_seen' = w_seen \cup {i}
  /\ w_messages' = onMessage_useChatbot(w_messages,
                                         [id |-> RowIds[i], role |-> messages[i].role,
                                          agent_id |-> messages[i].agent_id])
  /\ isTyping' = (isTyping /\ messages[i].role # "assistant")
  /\ UNCHANGED <<storeVars, w_pc, w_closure, w_data, agentTakenOver, knowledgeBaseEnabled,
                 assignedAgent, lookups, timers, isEscalated, w_outcome, sends, agentChannel,
                 embedVars, dashVars, idVars, subVars>>

\* ---- the managers of Supabase Realtime channels ------------------------

\* supabase.channel(name).on(...).subscribe() is taken to open a channel of
\* its own on every call, and channel.unsubscribe() to close that channel.
Fresh(open) == CHOOSE n \in 1..(Cardinality(open) + 1) : \A ch \in open : ch.id # n

Opened(open, manager, table, conversationId, callback) ==
  [id |-> Fresh(open), manager |-> manager, table |-> table,
   conversation_id |-> conversationId, callback |-> callback]

Closed(open, ids) == {ch \in open : ch.id \notin ids}

\* The bookkeeping every subscribe call of a component shares: the call is
\* counted and the component holds the subscription from now on.
Subscribed(manager, s, conversationId) ==
  /\ subscribes > 0
  /\ held[manager][s] = NoTopic
  /\ subscribes' = subscribes - 1
  /\ held' = [held EXCEPT ![manager][s] = conversationId]

\* RealTimeChatManager.unsubscribe(conversationId): the message channel and
\* the agent channel stored under the conversation id are closed and dropped.
unsubscribe_RealTimeChatManager(conversationId) ==
  [client |-> Closed(client_channels,
                     {messageChannels[conversationId], agentChannels[conversationId]}),
   messageChannels |-> [messageChannels EXCEPT ![conversationId] = NoChannel],
   agentChannels |-> [agentChannels EXCEPT ![conversationId] = NoChannel]]

\* RealTimeChatManager.subscribe({conversationId, onMessage, onAgentChange})
\* as useChatbot calls it: a conversation that has a message channel is
\* unsubscribed first, then both channels are opened for the caller.
subscribe_RealTimeChatManager(s, conversationId) ==
  /\ Subscribed(RealTimeChatManager, s, conversationId)
  /\ LET before == IF messageChannels[conversationId] # NoChannel
                   THEN unsubscribe_RealTimeChatManager(conversationId)
                   ELSE [client |-> client_channels, messageChannels |-> messageChannels,
                         agentChannels |-> agentChannels]
         messageChannel == Opened(before.client, RealTimeChatManager, "messages",
                                  conversationId, s)
         agentsChannel == Opened(before.client \cup {messageChannel}, RealTimeChatManager,
                                "conversation_agents", conversationId, s)
     IN  /\ client_channels' = before.client \cup {messageChannel, agentsChannel}
         /\ messageChannels' =
              [before.messageChannels EXCEPT ![conversationId] = messageChannel.id]
         /\ agentChannels' =
              [before.agentChannels EXCEPT ![conversationId] = agentsChannel.id]
  /\ UNCHANGED <<storeVars, widgetVars, agentChannel, embedVars, dashVars, idVars, apiVars, viewVars,
                 socketVars, channels, supabaseSubscriptions, received, events>>

\* The function subscribe returned to component s is called (the cleanup of
\* its effect): () => this.unsubscribe(conversationId).
cleanup_RealTimeChatManager(s) ==
  /\ held[RealTimeChatManager][s] # NoTopic
  /\ LET after == unsubscribe_RealTimeChatManager(held[RealTimeChatManager][s])
     IN  /\ client_channels' = after.client
         /\ messageChannels' = after.messageChannels
         /\ agentChannels' = after.agentChannels
  /\ held' = [held EXCEPT ![RealTimeChatManager][s] = NoTopic]
  /\ UNCHANGED <<storeVars, widgetVars, agentChannel, embedVars, dashVars, idVars, apiVars, viewVars,
                 socketVars, channels, supabaseSubscriptions, received, subscribes, events>>

\* RealtimeService.subscribeNewMessage(conversationId, callback): with a
\* channel of that name in the map the call returns at once.
subscribeNewMessage(s, conversationId) ==
  /\ Subscribed(RealtimeService, s, conversationId)
  /\ IF channels[conversationId] # NoChannel
     THEN UNCHANGED <<client_channels, channels>>
     ELSE LET channel == Opened(client_channels, RealtimeService, "messages",
                                conversationId, s)
          IN  /\ client_channels' = client_channels \cup {channel}
              /\ channels' = [channels EXCEPT ![conversationId] = channel.id]
  /\ UNCHANGED <<storeVars, widgetVars, agentChannel, embedVars, dashVars, idVars, apiVars, viewVars,
                 socketVars, messageChannels, agentChannels, supabaseSubscriptions, received, events>>

\* RealtimeService.unsubscribe(`messages-${conversationId}`) in the cleanup
\* of the effect of component s.
unsubscribe_RealtimeService(s) ==
  /\ held[RealtimeService][s] # NoTopic
  /\ LET conversationId == held[RealtimeService][s]
     IN  /\ client_channels' = Closed(client_channels, {channels[conversationId]})
         /\ channels' = [channels EXCEPT ![conversationId] = NoChannel]
  /\ held' = [held EXCEPT ![RealtimeService][s] = NoTopic]
  /\ UNCHANGED <<storeVars, widgetVars, agentChannel, embedVars, dashVars, idVars, apiVars, viewVars,
                 socketVars, messageChannels, agentChannels, supabaseSubscriptions, received,
                 subscribes, events>>

\* RealtimeService.unsubscribeAll() in the cleanup of the page of component s
\* (the dashboard and the embed page call it when they unmount).
unsubscribeAll(s) ==
  /\ held[RealtimeService][s] # NoTopic
  /\ client_channels' = Closed(client_channels, {channels[c] : c \in Topics})
  /\ channels' = [c \in Topics |-> NoChannel]
  /\ held' = [held EXCEPT ![RealtimeService][s] = NoTopic]
  /\ UNCHANGED <<storeVars, widgetVars, agentChannel, embedVars, dashVars, idVars, apiVars, viewVars,
                 socketVars, messageChannels, agentChannels, supabaseSubscriptions, received,
                 subscribes, events>>

\* SocketChatManager.subscribeWithSupabase as SocialChatInterface reaches it
\* (no onAgentChange): a messages channel is opened and pushed onto
\* supabaseSubscriptions.
subscribeWithSupabase(s, conversationId) ==
  /\ Subscribed(SocketChatManager, s, conversationId)
  /\ LET messageSubscription == Opened(client_channels, SocketChatManager, "messages",
                                       conversationId, s)
     IN  /\ client_channels' = client_channels \cup {messageSubscription}
         /\ supabaseSubscriptions' = Append(supabaseSubscriptions, messageSubscription.id)
  /\ UNCHANGED <<storeVars, widgetVars, agentChannel, embedVars, dashVars, idVars, apiVars, viewVars,
                 socketVars, messageChannels, agentChannels, channels, received, events>>

\* The cleanup function subscribeWithSupabase returned to component s: every
\* entry of supabaseSubscriptions is unsubscribed and the list is emptied.
cleanup_subscribeWithSupabase(s) ==
  /\ held[SocketChatManager][s] # NoTopic
  /\ client_channels' =
       Closed(client_channels,
              {supabaseSubscriptions[i] : i \in 1..Len(supabaseSubscriptions)})
  /\ supabaseSubscriptions' = <<>>
  /\ held' = [held EXCEPT ![SocketChatManager][s] = NoTopic]
  /\ UNCHANGED <<storeVars, widgetVars, agentChannel, embedVars, dashVars, idVars, apiVars, viewVars,
                 socketVars, messageChannels, agentChannels, channels, received, subscribes, events>>

\* The components whose callback an open channel of `manager` calls for a
\* change of `table` in conversation `conversationId`.
Callbacks(manager, table, conversationId) ==
  {ch.callback : ch \in {x \in client_channels : /\ x.manager = manager
                                                /\ x.table = table
                                                /\ x.conversation_id = conversationId}}

\* A change of `table` for the conversation is published: every open channel
\* with that filter calls its callback.
postgres_changes(table, conversationId) ==
  /\ events > 0
  /\ events' = events - 1
  /\ received' =
       [m \in Managers |->
          [s \in Subscribers |->
             received[m][s] +
             Cardinality({ch \in client_channels : /\ ch.manager = m
                                                   /\ ch.table = table
                                                   /\ ch.conversation_id = conversationId
                                                   /\ ch.callback = s})]]
  /\ UNCHANGED <<storeVars, widgetVars, agentChannel, embedVars, dashVars, idVars, apiVars, viewVars,
                 socketVars, client_channels, messageChannels, agentChannels, channels,
                 supabaseSubscriptions, held, subscribes>>

\* ---- socketChatManager: rooms over one socket --------------------------

\* The rooms of the socket after the server has handled the packets `buffer`
\* in order, starting from `joined`.
RECURSIVE Handled(_, _)
Handled(buffer, joined) ==
  IF buffer = <<>> THEN joined
  ELSE Handled(Tail(buffer),
               IF Head(buffer)[1] = "join_conversation"
               THEN joined \cup {Head(buffer)[2]}
               ELSE joined \ {Head(buffer)[2]})

\* socket.emit(event, {conversationId}): sent when the socket is open, kept
\* in the socket's send buffer otherwise.
emit(event, conversationId) ==
  IF transport = "open"
  THEN /\ rooms' = Handled(<<<<event, conversationId>>>>, rooms)
       /\ sendBuffer' = sendBuffer
  ELSE /\ rooms' = rooms
       /\ sendBuffer' = Append(sendBuffer, <<event, conversationId>>)

\* SocketChatManager.subscribe: connect() (the socket starts connecting when
\* it never was connected), the conversation becomes the current one, its
\* room is joined and the handlers of the caller are registered.
subscribe_SocketChatManager(s, conversationId) ==
  /\ Subscribed(SocketChatManager, s, conversationId)
  /\ transport' = IF ~connected /\ transport = "closed" THEN "connecting" ELSE transport
  /\ currentConversation' = conversationId
  /\ currentUser' = s
  /\ emit("join_conversation", conversationId)
  /\ listeners' = listeners \cup {[subscriber |-> s, conversationId |-> conversationId]}
  /\ UNCHANGED <<storeVars, widgetVars, agentChannel, embedVars, dashVars, idVars, apiVars, viewVars,
                 client_channels, messageChannels, agentChannels, channels,
                 supabaseSubscriptions, received, events, connected, drops, fallbackVars>>

\* The cleanup function subscribe returned to component s: its handlers are
\* removed, and the room is left when its conversation is the current one.
cleanup_SocketChatManager(s) ==
  /\ held[SocketChatManager][s] # NoTopic
  /\ LET conversationId == held[SocketChatManager][s]
     IN  /\ listeners' = listeners \ {[subscriber |-> s, conversationId |-> conversationId]}
         /\ IF currentConversation = conversationId
            THEN /\ emit("leave_conversation", conversationId)
                 /\ currentConversation' = NoTopic
                 /\ currentUser' = NoTopic
            ELSE UNCHANGED <<rooms, sendBuffer, currentConversation, currentUser>>
  /\ held' = [held EXCEPT ![SocketChatManager][s] = NoTopic]
  /\ UNCHANGED <<storeVars, widgetVars, agentChannel, embedVars, dashVars, idVars, apiVars, viewVars,
                 client_channels, messageChannels, agentChannels, channels,
                 supabaseSubscriptions, received, subscribes, events, connected,
                 transport, drops, fallbackVars>>

\* The socket connects or reconnects: the server starts the socket without a
\* room, the send buffer is flushed, and the 'connect' handler joins the
\* current conversation again (the 'reconnect' handler does the same).
socket_connect ==
  /\ transport \in {"connecting", "lost"}
  /\ transport' = "open"
  /\ connected' = TRUE
  /\ sendBuffer' = <<>>
  /\ rooms' = Handled(IF currentConversation # NoTopic /\ currentUser # NoTopic
                      THEN Append(sendBuffer, <<"join_conversation", currentConversation>>)
                      ELSE sendBuffer,
                      {})
  /\ UNCHANGED <<storeVars, widgetVars, agentChannel, embedVars, dashVars, idVars, apiVars, viewVars,
                 managerVars, currentConversation, currentUser, listeners, drops, fallbackVars>>

\* The transport is lost: the 'disconnect' handler clears `connected`, the
\* server forgets the rooms of the socket, the socket reconnects by itself.
socket_disconnect ==
  /\ transport = "open"
  /\ drops > 0
  /\ drops' = drops - 1
  /\ transport' = "lost"
  /\ connected' = FALSE
  /\ rooms' = {}
  /\ UNCHANGED <<storeVars, widgetVars, agentChannel, embedVars, dashVars, idVars, apiVars, viewVars,
                 managerVars, currentConversation, currentUser, listeners, sendBuffer,
                 fallbackVars>>

\* The server emits new_message to the room of the conversation: when the
\* socket is in the room, every registered messageHandler calls its
\* onMessage.
new_message(conversationId) ==
  /\ events > 0
  /\ transport = "open"
  /\ conversationId \in rooms
  /\ events' = events - 1
  /\ received' =
       [received EXCEPT
          ![SocketChatManager] =
             [s \in Subscribers |->
                received[SocketChatManager][s] +
                Cardinality({l \in listeners : l.subscriber = s})]]
  /\ UNCHANGED <<storeVars, widgetVars, agentChannel, embedVars, dashVars, idVars, apiVars, viewVars,
                 client_channels, messageChannels, agentChannels, channels,
                 supabaseSubscriptions, held, subscribes, socketVars>>

\* ---- the socket manager that falls back to Supabase Realtime -----------

\* SocketChatManager.maxConnectionAttempts.
maxConnectionAttempts == 3

\* The switch to the fallback: useSupabaseRealtime and connected are set and
\* the socket is disconnected.  The handlers registered on the socket stay
\* where they are; no channel is opened for them.
SwitchToSupabase(socket) ==
  /\ useSupabaseRealtime' = TRUE
  /\ connected' = TRUE
  /\ transport' = socket
  /\ rooms' = {}
  /\ sendBuffer' = <<>>

\* The catch block of initializeConnection: the first connection attempt
\* timed out, or failed with connect_error (which the handler of
\* setupSocketEventListeners has counted).  The manager switches to the
\* fallback and drops the socket.
initializeConnection_catch ==
  /\ initializing
  /\ transport = "connecting"
  /\ initializing' = FALSE
  /\ \E byError \in BOOLEAN :
       connectionAttempts' = IF byError THEN connectionAttempts + 1 ELSE connectionAttempts
  /\ SwitchToSupabase("none")
  /\ UNCHANGED <<storeVars, widgetVars, agentChannel, embedVars, dashVars, idVars, apiVars, viewVars,
                 managerVars, currentConversation, currentUser, listeners, drops, sendResult>>

\* connect_error while the socket tries to reconnect: the attempt is counted,
\* and with maxConnectionAttempts of them the manager switches to the
\* fallback and disconnects the socket.
connect_error ==
  /\ transport = "lost"
  /\ connectionAttempts' = connectionAttempts + 1
  /\ IF connectionAttempts' >= maxConnectionAttempts
     THEN SwitchToSupabase("closed")
     ELSE UNCHANGED <<useSupabaseRealtime, connected, transport, rooms, sendBuffer>>
  /\ UNCHANGED <<storeVars, widgetVars, agentChannel, embedVars, dashVars, idVars, apiVars, viewVars,
                 managerVars, currentConversation, currentUser, listeners, drops,
                 initializing, sendResult>>

\* The socket connects or reconnects: as socket_connect, and the attempts are
\* forgotten; the first connection settles the promise of
\* initializeConnection.
socket_connect_withFallback ==
  /\ transport \in {"connecting", "lost"}
  /\ transport' = "open"
  /\ connected' = TRUE
  /\ connectionAttempts' = 0
  /\ initializing' = FALSE
  /\ useSupabaseRealtime' = FALSE
  /\ sendBuffer' = <<>>
  /\ rooms' = Handled(IF currentConversation # NoTopic /\ currentUser # NoTopic
                      THEN Append(sendBuffer, <<"join_conversation", currentConversation>>)
                      ELSE sendBuffer,
                      {})
  /\ UNCHANGED <<storeVars, widgetVars, agentChannel, embedVars, dashVars, idVars, apiVars, viewVars,
                 managerVars, currentConversation, currentUser, listeners, drops, sendResult>>

\* SocketChatManager.subscribe of the manager with the fallback, as
\* SocialChatInterface calls it (no onAgentChange): connect(), the
\* conversation becomes the current one, and then either a Supabase channel
\* is opened for the caller (fallback mode) or the room is joined and the
\* caller's handlers are registered on the socket.
subscribe_withFallback(s, conversationId) ==
  /\ Subscribed(SocketChatManager, s, conversationId)
  /\ currentConversation' = conversationId
  /\ currentUser' = s
  /\ IF useSupabaseRealtime
     THEN LET messageSubscription == Opened(client_channels, SocketChatManager, "messages",
                                            conversationId, s)
          IN  /\ connected' = TRUE
              /\ client_channels' = client_channels \cup {messageSubscription}
              /\ supabaseSubscriptions' = Append(supabaseSubscriptions, messageSubscription.id)
              /\ UNCHANGED <<transport, rooms, sendBuffer, listeners>>
     ELSE /\ transport' = IF ~connected /\ transport = "closed" THEN "connecting" ELSE transport
          /\ emit("join_conversation", conversationId)
          /\ listeners' = listeners \cup {[subscriber |-> s, conversationId |-> conversationId]}
          /\ UNCHANGED <<connected, client_channels, supabaseSubscriptions>>
  /\ UNCHANGED <<storeVars, widgetVars, agentChannel, embedVars, dashVars, idVars, apiVars, viewVars,
                 messageChannels, agentChannels, channels, received, events, drops,
                 fallbackVars>>

\* SocketChatManager.sendMessage of the manager with the fallback, called by
\* component s: thrown when not connected; in fallback mode the row is
\* inserted into messages (an error of the insert is thrown); otherwise
\* send_message is emitted and the server's acknowledgement decides (the
\* server stores what it acknowledges).
sendMessage_withFallback(s, conversationId) ==
  /\ sendResult[s] = "none"
  /\ held[SocketChatManager][s] = conversationId
  /\ IF ~connected
     THEN /\ sendResult' = [sendResult EXCEPT ![s] = "not connected"]
          /\ messages' = messages
     ELSE IF useSupabaseRealtime
     THEN IF MessageInsertAllowed(conversationId)
          THEN /\ messages' = Append(messages, Message(conversationId, "customer", "user", NoAgent))
               /\ sendResult' = [sendResult EXCEPT ![s] = "sent"]
          ELSE /\ messages' = messages
               /\ sendResult' = [sendResult EXCEPT ![s] = "error"]
     ELSE \E success \in BOOLEAN :
            IF success
            THEN /\ messages' = Append(messages,
                                       Message(conversationId, "customer", "user", NoAgent))
                 /\ sendResult' = [sendResult EXCEPT ![s] = "sent"]
            ELSE /\ messages' = messages
                 /\ sendResult' = [sendResult EXCEPT ![s] = "error"]
  /\ UNCHANGED <<conversations, conversation_agents, agents, agent_assignments,
                 agent_notifications, widgetVars, agentChannel, embedVars, dashVars, idVars,
                 apiVars, viewVars, managerVars, connected, currentConversation, currentUser, listeners,
                 transport, sendBuffer, rooms, drops, useSupabaseRealtime, connectionAttempts,
                 initializing>>

\* ---- the specification of the hand-off coordinator ---------------------

Customer ==
  \E k \in Slots :
    \/ sendMessage_begin(k)
    \/ ensureConversation_select(k)
    \/ ensureConversation_insert(k)
    \/ sendMessage_user(k)
    \/ checkAgentTakeover(k)
    \/ analyzeSentiment(k)
    \/ generateChatResponse_return(k)
    \/ sendMessage_timeout

Widget ==
  \/ Customer
  \/ onAgentChange
  \/ \E agentData \in AgentData : handleAgentTakeover(agentData)

Embed ==
  \/ initializeSocialChat_select
  \/ initializeSocialChat_insert

Dashboard ==
  \E a \in Agents :
    \/ fetchAvailableConversations(a)
    \/ fetchAssignedConversations(a)
    \/ \E c \in ConversationIds : handleConversationSelect(a, c)
    \/ \E c \in conversations : handleManualIntervention(a, c)
    \/ handleManualIntervention_rest(a)
    \/ \E c \in ConversationIds : assignAgentToConversation(c, a)
    \/ handleSendMessage(a)
    \/ handleHandBackToBot(a)
    \/ handleHandBackToBot_delete(a)
    \/ deleteAgent(a)

Next == Widget \/ Embed \/ Dashboard

Spec == Init /\ [][Next]_vars

\* ---- the specification of the ownership operations --------------------

\* The agents and the admin act on a conversation the embed view has created;
\* the customer sends nothing (sendMessage writes neither conversation_agents
\* nor agents) and the change events stay queued for the widget.
OwnershipInit ==
  StoreInit /\ WidgetInit /\ EmbedInit /\ DashInit /\ IdIdle /\ SubIdle /\ Budget(0, MaxAgentOps)

OwnershipNext == Embed \/ Dashboard

SpecOwnership == OwnershipInit /\ [][OwnershipNext]_vars

\* ---- the specification of conversation creation -----------------------

\* The page that mounts the widget and the embed view for one (chatbot,
\* session): both call ensureConversation, no agent is at work.
EnsureInit ==
  StoreInit /\ WidgetInit /\ EmbedInit /\ DashInit /\ IdIdle /\ SubIdle /\ Budget(MaxCalls, 0)

EnsureNext == Customer \/ Embed

SpecEnsure == EnsureInit /\ [][EnsureNext]_vars

\* ---- the specification of the escalation policy ------------------------

\* The customer writes to a chatbot that has every agent assigned to it or
\* none; the agent on duty takes conversations over and hands them back.
OnDuty == {"A"}

EscalationInit ==
  /\ conversations = {}
  /\ messages = <<>>
  /\ conversation_agents = {}
  /\ agents = Agents
  /\ agent_assignments \in {{}, {[agent_id |-> a, chatbot_id |-> BotId] : a \in Agents}}
  /\ agent_notifications = <<>>
  /\ WidgetInit /\ EmbedInit /\ DashInit /\ IdIdle /\ SubIdle /\ Budget(MaxFlagged, MaxHandOffs)

HandOff ==
  \E a \in OnDuty :
    \/ fetchAvailableConversations(a)
    \/ \E c \in conversations : handleManualIntervention(a, c)
    \/ handleManualIntervention_rest(a)
    \/ handleHandBackToBot(a)
    \/ handleHandBackToBot_delete(a)

EscalationNext == Widget \/ HandOff

SpecEscalation == EscalationInit /\ [][EscalationNext]_vars

\* ---- the specification of one escalation request -----------------------

\* One customer message and one answer of the agent on duty: the message may
\* escalate, the agent may take the conversation over.
RequestInit ==
  StoreInit /\ WidgetInit /\ EmbedInit /\ DashInit /\ IdIdle /\ SubIdle /\ Budget(MaxRequests, MaxAnswers)

TakeOver ==
  \E a \in OnDuty :
    \/ fetchAvailableConversations(a)
    \/ \E c \in conversations : handleManualIntervention(a, c)
    \/ handleManualIntervention_rest(a)

RequestNext == Widget \/ TakeOver

SpecRequest == RequestInit /\ [][RequestNext]_vars

\* ---- the specification of message delivery -----------------------------

\* The conversation exists and agent "A" has taken it over and selected it
\* on the dashboard; the widget, that dashboard and the social chat view are
\* subscribed to its messages, and the transport may deliver an insert event
\* any number of times.
DeliveryInit ==
  LET row == [id |-> ManagerConv, chatbot_id |-> BotId, session_id |-> SessionId]
  IN  /\ conversations = {row}
      /\ messages = <<>>
      /\ conversation_agents =
           {[conversation_id |-> ManagerConv, agent_id |-> "A", knowledge_base_enabled |-> FALSE]}
      /\ agents = Agents
      /\ agent_assignments = {[agent_id |-> a, chatbot_id |-> BotId] : a \in Agents}
      /\ agent_notifications = <<>>
      /\ WidgetInit /\ EmbedInit /\ IdIdle /\ Budget(0, 0)
      /\ d_pc = [a \in Agents |-> "idle"]
      /\ d_arg = [a \in Agents |-> NoRow]
      /\ availableConversations = [a \in Agents |-> {}]
      /\ assignedConversations = [a \in Agents |-> IF a = "A" THEN {row} ELSE {}]
      /\ selectedConversation = [a \in Agents |-> IF a = "A" THEN ManagerConv ELSE ""]
      /\ alerted = [a \in Agents |-> NoAlert]
      /\ actor = NoAgent
      /\ ApiIdle
      /\ d_messages = [a \in Agents |-> <<>>]
      /\ s_messages = <<>>
      /\ deliveries = [v \in Views |-> MaxDeliveries]
      /\ ManagersIdle /\ SocketIdle

DeliveryNext ==
  \E message \in MessageRows :
    \/ deliver_useChatbot(message)
    \/ \E a \in Agents : deliver_AgentDashboard(a, message)
    \/ deliver_SocialChatInterface(message)

SpecDelivery == DeliveryInit /\ [][DeliveryNext]_vars

\* ---- the specification of the subscription managers --------------------

\* Two components subscribe to and unsubscribe from two conversations at the
\* three managers while the Store publishes changes.
SubscriptionsInit ==
  /\ StoreInit /\ WidgetInit /\ EmbedInit /\ DashInit /\ IdIdle /\ ViewIdle /\ Budget(0, 0)
  /\ ManagersInit /\ SocketIdle
  /\ subscribes = MaxSubscribes
  /\ events = MaxEvents

SubscriptionsNext ==
  \/ \E s \in Subscribers :
       \/ \E c \in Topics : subscribe_RealTimeChatManager(s, c)
       \/ cleanup_RealTimeChatManager(s)
       \/ \E c \in Topics : subscribeNewMessage(s, c)
       \/ unsubscribe_RealtimeService(s)
       \/ unsubscribeAll(s)
       \/ \E c \in Topics : subscribeWithSupabase(s, c)
       \/ cleanup_subscribeWithSupabase(s)
  \/ \E table \in Tables, c \in Topics : postgres_changes(table, c)

SpecSubscriptions == SubscriptionsInit /\ [][SubscriptionsNext]_vars

\* ---- the specification of the socket's reconnection --------------------

\* Two components subscribe to conversations at socketChatManager while the
\* transport connects, is lost and comes back.
ReconnectInit ==
  /\ StoreInit /\ WidgetInit /\ EmbedInit /\ DashInit /\ IdIdle /\ ViewIdle /\ Budget(0, 0)
  /\ ManagersInit /\ SocketInit
  /\ subscribes = MaxJoins
  /\ events = MaxEvents
  /\ drops = MaxDrops

ReconnectNext ==
  \/ \E s \in Subscribers :
       \/ \E c \in Topics : subscribe_SocketChatManager(s, c)
       \/ cleanup_SocketChatManager(s)
  \/ socket_connect
  \/ socket_disconnect
  \/ \E c \in Topics : new_message(c)

SpecReconnect == ReconnectInit /\ [][ReconnectNext]_vars

\* ---- the specification of the socket manager's fallback ----------------

\* The manager as its constructor leaves it: initializeConnection has called
\* socket.connect() and waits.  The conversations exist (ensureConversation
\* ran before the view was mounted); two components subscribe and send while
\* the transport connects, fails, is lost or gives up.
FallbackInit ==
  /\ conversations = {[id |-> c, chatbot_id |-> BotId, session_id |-> SessionId] : c \in Topics}
  /\ messages = <<>>
  /\ conversation_agents = {}
  /\ agents = Agents
  /\ agent_assignments = {[agent_id |-> a, chatbot_id |-> BotId] : a \in Agents}
  /\ agent_notifications = <<>>
  /\ WidgetInit /\ EmbedInit /\ DashInit /\ IdIdle /\ ViewIdle /\ Budget(0, 0)
  /\ ManagersInit
  /\ connected = FALSE
  /\ currentConversation = NoTopic
  /\ currentUser = NoTopic
  /\ listeners = {}
  /\ transport = "connecting"
  /\ sendBuffer = <<>>
  /\ rooms = {}
  /\ useSupabaseRealtime = FALSE
  /\ connectionAttempts = 0
  /\ initializing = TRUE
  /\ sendResult = [s \in Subscribers |-> "none"]
  /\ subscribes = MaxJoins
  /\ events = MaxEvents
  /\ drops = MaxDrops

FallbackNext ==
  \/ \E s \in Subscribers, c \in Topics :
       \/ subscribe_withFallback(s, c)
       \/ sendMessage_withFallback(s, c)
  \/ initializeConnection_catch
  \/ socket_connect_withFallback
  \/ socket_disconnect
  \/ connect_error
  \/ \E c \in Topics : postgres_changes("messages", c)
  \/ \E c \in Topics : new_message(c)

SpecFallback == FallbackInit /\ [][FallbackNext]_vars

\* ---- the specification of the knowledge-base toggle -------------------

\* The embed view creates the conversation; the agents take it over and call
\* toggleKnowledgeBase of either service, on conversations with and without
\* an assignment.
ToggleInit ==
  StoreInit /\ WidgetInit /\ EmbedInit /\ DashInit /\ IdIdle /\ SubIdle /\ Budget(0, MaxToggles)

ToggleNext ==
  \/ Embed
  \/ \E a \in Agents :
       \/ fetchAvailableConversations(a)
       \/ \E c \in conversations : handleManualIntervention(a, c)
       \/ handleManualIntervention_rest(a)
       \/ \E c \in ConversationIds, enabled \in BOOLEAN : toggleKnowledgeBase(a, c, enabled)
       \/ \E c \in ConversationIds, enabled \in BOOLEAN :
            toggleKnowledgeBase_chatManager(a, c, enabled)

SpecToggle == ToggleInit /\ [][ToggleNext]_vars

\* ---- the specification of takeover and message events -----------------

\* MaxTakeovers bounds the dashboard handlers invoked under SpecConverge.
MaxTakeovers == 3

\* The messages row of MessageRows is in the Store.
Stored(message) ==
  \E i \in 1..Len(messages) :
    messages[i] = Message(message.conversation_id, message.content, message.role,
                          message.agent_id)

\* The conversation exists and holds one message; nobody owns it yet.  The
\* widget is subscribed: the insert event of the message and the events of
\* an agent's takeover reach it in any order.
ConvergeInit ==
  /\ conversations = {[id |-> ManagerConv, chatbot_id |-> BotId, session_id |-> SessionId]}
  /\ \E message \in MessageRows :
       messages = <<Message(message.conversation_id, message.content, message.role,
                            message.agent_id)>>
  /\ conversation_agents = {}
  /\ agents = Agents
  /\ agent_assignments = {[agent_id |-> a, chatbot_id |-> BotId] : a \in Agents}
  /\ agent_notifications = <<>>
  /\ WidgetInit /\ EmbedInit /\ DashInit /\ IdIdle /\ Budget(0, MaxTakeovers)
  /\ ApiIdle
  /\ d_messages = [a \in Agents |-> <<>>]
  /\ s_messages = <<>>
  /\ deliveries = [v \in Views |-> IF v = "widget" THEN MaxDeliveries ELSE 0]
  /\ ManagersIdle /\ SocketIdle

ConvergeNext ==
  \/ \E a \in Agents :
       \/ fetchAvailableConversations(a)
       \/ \E c \in conversations : handleManualIntervention(a, c)
       \/ handleManualIntervention_rest(a)
  \/ onAgentChange
  \/ \E agentData \in AgentData : handleAgentTakeover(agentData)
  \/ \E message \in MessageRows : Stored(message) /\ deliver_useChatbot(message)

SpecConverge == ConvergeInit /\ [][ConvergeNext]_vars

\* ---- the specification of the notifications ----------------------------

\* The embed view creates the conversation; the agents take it over, which
\* notifies them, they mark notifications as read, and the admin deletes
\* agents.
NotifyInit ==
  StoreInit /\ WidgetInit /\ EmbedInit /\ DashInit /\ IdIdle /\ SubIdle /\ Budget(0, MaxTakeovers)

NotifyNext ==
  \/ Embed
  \/ \E a \in Agents :
       \/ fetchAvailableConversations(a)
       \/ \E c \in conversations : handleManualIntervention(a, c)
       \/ handleManualIntervention_rest(a)
       \/ deleteAgent(a)
  \/ \E notificationId \in 1..MaxTakeovers : markNotificationAsRead(notificationId)

SpecNotify == NotifyInit /\ [][NotifyNext]_vars

\* ---- the specification of takeover and hand-back events ----------------

\* The conversation exists and nobody owns it.  The agents take it over and
\* hand it back from their dashboards; the widget handles the change events
\* in the order of their commit, and its agent lookups return at any time.
HandBackInit ==
  /\ conversations = {[id |-> ManagerConv, chatbot_id |-> BotId, session_id |-> SessionId]}
  /\ messages = <<>>
  /\ conversation_agents = {}
  /\ agents = Agents
  /\ agent_assignments = {[agent_id |-> a, chatbot_id |-> BotId] : a \in Agents}
  /\ agent_notifications = <<>>
  /\ WidgetInit /\ EmbedInit /\ DashInit /\ IdIdle /\ SubIdle /\ Budget(0, MaxTakeovers)

HandBackNext ==
  \/ \E a \in Agents :
       \/ fetchAvailableConversations(a)
       \/ \E c \in conversations : handleManualIntervention(a, c)
       \/ handleManualIntervention_rest(a)
       \/ handleHandBackToBot(a)
       \/ handleHandBackToBot_delete(a)
  \/ onAgentChange
  \/ \E agentData \in AgentData : handleAgentTakeover(agentData)

SpecHandBack == HandBackInit /\ [][HandBackNext]_vars

\* ---- the specification of the widget's message list -------------------

\* The customer sends messages; the widget shows them at once, stores them,
\* gets their insert events over its subscription at any time, and its
\* fallback timer fires at any time after the reply was stored.  The agent
\* on duty may take the conversation over meanwhile.
ListInit ==
  StoreInit /\ WidgetInit /\ EmbedInit /\ DashInit /\ IdIdle /\ SubIdle
  /\ Budget(MaxRequests, MaxAnswers)

ListNext ==
  \/ Widget
  \/ TakeOver
  \/ \E i \in DOMAIN RowIds : onMessage(i)

SpecList == ListInit /\ [][ListNext]_vars

\* ---- the specification of a takeover with Store failures ---------------

\* The embed view creates the conversation and the agents take it over; the
\* insert of the notification may fail in the Store.
TakeoverInit ==
  StoreInit /\ WidgetInit /\ EmbedInit /\ DashInit /\ IdIdle /\ SubIdle /\ Budget(0, MaxTakeovers)

TakeoverNext ==
  \/ Embed
  \/ \E a \in Agents :
       \/ fetchAvailableConversations(a)
       \/ \E c \in conversations : handleManualIntervention(a, c)
       \/ handleManualIntervention_rest(a)
       \/ handleManualIntervention_thrown(a)

SpecTakeover == TakeoverInit /\ [][TakeoverNext]_vars

\* ---- the specification of the identifier derivation --------------------

IdInit ==
  /\ StoreInit /\ WidgetInit /\ EmbedInit /\ DashInit /\ SubIdle /\ Budget(0, 0)
  /\ id_pc = "useChatbot"
  /\ id_input \in IdStrings \X IdStrings
  /\ id_out = <<>>

Derive(at, id, then) ==
  /\ id_pc = at
  /\ id_out' = Append(id_out, id)
  /\ id_pc' = then
  /\ UNCHANGED <<storeVars, widgetVars, agentChannel, embedVars, dashVars, id_input, subVars>>

derive_useChatbot ==
  Derive("useChatbot",
         generateConversationId_useChatbot(id_input[1], id_input[2]),
         "RealTimeChatManager")

derive_RealTimeChatManager ==
  Derive("RealTimeChatManager",
         generateConversationId_RealTimeChatManager(id_input[1], id_input[2]),
         "SocketChatManager")

derive_SocketChatManager ==
  Derive("SocketChatManager",
         generateConversationId_SocketChatManager(id_input[1], id_input[2]),
         "RealtimeService")

derive_RealtimeService ==
  Derive("RealtimeService",
         generateConversationId_RealtimeService(id_input[1], id_input[2]),
         "add_session_message")

derive_add_session_message ==
  Derive("add_session_message",
         ServerConversationId(id_input[1], id_input[2]),
         "done")

IdNext ==
  \/ derive_useChatbot
  \/ derive_RealTimeChatManager
  \/ derive_SocketChatManager
  \/ derive_RealtimeService
  \/ derive_add_session_message

SpecId == IdInit /\ [][IdNext]_vars

\* ------------------------------------------------------------------------
\* Part 3: the claims
\* ------------------------------------------------------------------------

\* The agents that hold an assignment of conversation c in the table `cas`.
Owners(cas, c) == {r.agent_id : r \in {x \in cas : x.conversation_id = c}}

\* The conversations rows of the model's (chatbot, session) in `convs`.
SessionRows(convs) ==
  {r \in convs : r.chatbot_id = BotId /\ r.session_id = SessionId}

\* C1: while an Ownership Assignment exists for the conversation, sendMessage
\* does not invoke the Responder.  Stated for the calls that know of the
\* assignment (checkAgentTakeover has found it or its change event has been
\* handled: agentTakenOver is set), so that a violation is no takeover that
\* slipped in between the check and the call.
C1_NoResponderWhileOwned ==
  [][\A k \in Slots :
       (w_pc[k] = "sentiment" /\ w_pc'[k] = "responder")
         => ~(agentTakenOver /\ RowsOf(ManagerConv) # {})]_vars

\* C2: a reply of the Responder is not posted once an agent has taken the
\* conversation over while the Responder was working: no message with role
\* assistant and no agent_id is appended to a conversation that has an
\* Ownership Assignment.  Stated for the calls whose own check found no
\* assignment (the takeover came while the call was in flight).
C2_NoReplyWhileOwned ==
  [][(/\ Len(messages') = Len(messages) + 1
      /\ messages'[Len(messages')].role = "assistant"
      /\ messages'[Len(messages')].agent_id = NoAgent
      /\ ~agentTakenOver)
       => RowsOf(messages'[Len(messages')].conversation_id) = {}]_vars

\* C3: a conversation has at most one conversation_agents row at any time,
\* concurrent takeovers included, and its owner never changes from one agent
\* directly to another: the insert is what excludes the second agent.
C3_AtMostOneOwner ==
  [][\A c \in {r.conversation_id : r \in conversation_agents \cup conversation_agents'} :
       /\ Cardinality({r \in conversation_agents' : r.conversation_id = c}) <= 1
       /\ (Owners(conversation_agents, c) # {} /\ Owners(conversation_agents', c) # {})
            => Owners(conversation_agents', c) = Owners(conversation_agents, c)]_vars

\* C3, its case: agent b's takeover was refused while agent a's takeover of
\* the same conversation, which had inserted its row, was still running.
C3_SecondTakeoverRefused ==
  \E a, b \in Agents :
    /\ a # b
    /\ d_pc[a] = "takeover"
    /\ Owners(conversation_agents, d_arg[a].id) = {a}
    /\ d_arg[b].id = d_arg[a].id
    /\ alerted[b] = AlertTakeOver

\* C4: a takeover of a conversation another agent owns fails, the failure is
\* reported to the agent who tried and the assignment stays as it was; a
\* takeover of a conversation nobody owns (the owner has released it) by an
\* existing agent succeeds.
C4_TakeoverConflict ==
  [][\A b \in Agents : \A c \in conversations :
       handleManualIntervention(b, c) =>
         /\ Owners(conversation_agents, c.id) \ {b} # {}
              => /\ alerted'[b] = AlertTakeOver
                 /\ conversation_agents' = conversation_agents
                 /\ d_pc'[b] = "idle"
         /\ (Owners(conversation_agents, c.id) = {} /\ b \in agents)
              => /\ Owners(conversation_agents', c.id) = {b}
                 /\ alerted'[b] = NoAlert]_vars

\* C4, its case: agent a has handed the conversation back, agent b has taken
\* it over since, and a's next takeover of it has been refused.
C4_TakeoverAfterRelease ==
  \E a, b \in Agents :
    /\ a # b
    /\ \E i \in 1..Len(messages) :
         messages[i].content = "handback" /\ messages[i].agent_id = a
    /\ d_pc[b] = "idle"
    /\ Owners(conversation_agents, d_arg[b].id) = {b}
    /\ d_arg[a].id = d_arg[b].id
    /\ alerted[a] = AlertTakeOver

\* C5: a hand-back by an agent who does not own the conversation changes
\* nothing and is reported to that agent as an error: the assignment stays
\* and no hand-back message is appended.
C5_HandBackByNonOwnerRefused ==
  [][\A a \in Agents :
       /\ (handleHandBackToBot(a) /\ a \notin Owners(conversation_agents, selectedConversation[a]))
            => messages' = messages
       /\ (handleHandBackToBot_delete(a) /\ a \notin Owners(conversation_agents, d_arg[a].id))
            => /\ conversation_agents' = conversation_agents
               /\ alerted'[a] = AlertHandBack]_vars

C7_ClientIdIsServerId ==
  id_pc = "done" => id_out[2] = id_out[5]

\* C8: however ensureConversation calls and add_session_message calls for one
\* (chatbot, session) interleave, the conversations table never holds two
\* rows with that chatbot_id and session_id.
C8_OneRowPerSession ==
  Cardinality(SessionRows(conversations)) <= 1

\* C9: when an ensureConversation call returns, the call whose select found
\* no row included, the table holds exactly one row of the (chatbot, session),
\* the call reports no error (sendMessage goes on to send the user's message,
\* the embed view is ready), and both callers hold the same id.
C9_ConcurrentEnsureOneRow ==
  [][/\ \A k \in Slots :
          ensureConversation_insert(k) =>
            (/\ Cardinality(SessionRows(conversations')) = 1
             /\ w_pc'[k] = "sendUser"
             /\ w_outcome'[k] # "error"
             /\ (e_pc = "ready" => e_conversationId = ManagerConv))
     /\ initializeSocialChat_insert =>
          (/\ Cardinality(SessionRows(conversations')) = 1
           /\ e_pc' = "ready"
           /\ e_conversationId' = ManagerConv)]_vars

\* C9, its case: the widget's call and the embed view's call both read "no
\* row", both have inserted and returned, and one row is there.
C9_BothInserted ==
  /\ w_pc[1] = "sendUser" /\ ~w_data[1] /\ sends = MaxCalls - 1
  /\ e_pc = "ready" /\ ~e_data
  /\ Cardinality(SessionRows(conversations)) = 1

\* C10: the four copies of generateConversationId (useChatbot,
\* RealTimeChatManager, SocketChatManager, RealtimeService) return the same
\* id for the same (chatbotId, sessionId).
C10_CopiesAgree ==
  id_pc = "done" =>
    /\ id_out[1] = id_out[2]
    /\ id_out[2] = id_out[3]
    /\ id_out[3] = id_out[4]

\* C10, its case: all copies have derived the id of a pair whose hash is
\* negative before Math.abs.
C10_AllCopiesDerived ==
  /\ id_pc = "done"
  /\ id_input[1] # id_input[2]
  /\ IsNegative32(hash_useChatbot(id_input[1] \o <<Underscore>> \o id_input[2], <<0, 0>>))

\* The escalation notifications of conversation c in the table `ns`.
Escalations(ns, c) ==
  SelectSeq(ns, LAMBDA n : n.type = "escalation" /\ n.conversation_id = c)

\* Whether the widget's message list `list` shows an entry of kind `kind`.
Shows(list, kind) == \E i \in 1..Len(list) : list[i].id = kind

\* C11: within one Bot-Owned period of the conversation at most one
\* escalation notification is created, whatever the Classifier flags and
\* however the sendMessage calls overlap.  Stated for the first period: no
\* agent has acted yet and the conversation has no Ownership Assignment.
C11_OneEscalationPerPeriod ==
  (ops = MaxHandOffs /\ conversation_agents = {})
    => Len(Escalations(agent_notifications, ManagerConv)) <= 1

\* C12: when the widget handles the hand-back of the conversation (the DELETE
\* event of its Ownership Assignment), the escalated flag is reset, so that
\* the next flagged message escalates again.
C12_HandBackResetsEscalation ==
  [][(/\ agentChannel # <<>>
      /\ Head(agentChannel).eventType = "DELETE"
      /\ onAgentChange)
       => ~isEscalated']_vars

\* C13: the escalation step of sendMessage leaves conversation_agents as it
\* is, and a conversation gets an Ownership Assignment only in a step of an
\* agent's takeover (handleManualIntervention).
C13_EscalationLeavesOwnership ==
  [][/\ \A k \in Slots :
          analyzeSentiment(k) => conversation_agents' = conversation_agents
     /\ (RowsOf(ManagerConv) = {} /\ conversation_agents' # conversation_agents)
          => \E a \in Agents : \E c \in conversations : handleManualIntervention(a, c)]_vars

\* C13, its case: the conversation was escalated (the notification is there)
\* while Bot-Owned, and an agent has taken it over afterwards.
C13_TakenOverAfterEscalation ==
  /\ isEscalated
  /\ Len(Escalations(agent_notifications, ManagerConv)) = 1
  /\ RowsOf(ManagerConv) # {}

\* C14: with no agent assigned to the chatbot a flagged message creates no
\* notification, leaves the conversation Bot-Owned and shows the customer no
\* escalation notice.
C14_NoAgentNoNotice ==
  agent_assignments = {}
    => /\ Len(Escalations(agent_notifications, ManagerConv)) = 0
       /\ RowsOf(ManagerConv) = {}
       /\ ~Shows(w_messages, "escalation")

\* C15: when the insert of the escalation notification fails (an agent is
\* assigned, the sentiment step ends and no notification was written),
\* sendMessage does not end in its catch block, the conversation is not
\* marked escalated and the Responder is called.
C15_FailedEscalationDegrades ==
  [][\A k \in Slots :
       (/\ analyzeSentiment(k)
        /\ agent_assignments # {}
        /\ agent_notifications' = agent_notifications)
         => /\ w_outcome'[k] # "error"
            /\ isEscalated' = isEscalated
            /\ w_pc'[k] = "responder"]_vars

\* The number of entries of the list `list` that carry the id `id`.
Count(list, id) == Cardinality({i \in 1..Len(list) : list[i].id = id})

\* C16: after an onMessage handler has been given the insert event of a
\* message, once or again, its view's list holds exactly one entry with that
\* message's id: in the widget, on the dashboard and in the social chat view.
C16_OneEntryPerMessageId ==
  [][\A message \in MessageRows :
       /\ deliver_useChatbot(message) => Count(w_messages', message.id) = 1
       /\ \A a \in Agents :
            deliver_AgentDashboard(a, message) => Count(d_messages'[a], message.id) = 1
       /\ deliver_SocialChatInterface(message) => Count(s_messages', message.id) = 1]_vars

\* C16, its case: every view has been given two events and shows one entry,
\* so each of them got the same message twice.
C16_EachViewGotItTwice ==
  /\ \A v \in Views : deliveries[v] = 0
  /\ MaxDeliveries >= 2
  /\ Len(w_messages) = 1 /\ Len(d_messages["A"]) = 1 /\ Len(s_messages) = 1

\* Whether a subscription at `manager` asks for the changes of `table`: all
\* three ask for messages, chatManager's callers also for conversation_agents.
Listens(manager, table) == table = "messages" \/ manager = RealTimeChatManager

\* The open channels of `manager` for (table, conversation).
Open(manager, table, conversationId) ==
  {ch \in client_channels : /\ ch.manager = manager
                            /\ ch.table = table
                            /\ ch.conversation_id = conversationId}

\* The channel ids `manager` keeps in its map or list.
Tracked(manager) ==
  CASE manager = RealTimeChatManager ->
         {messageChannels[c] : c \in Topics} \cup {agentChannels[c] : c \in Topics}
    [] manager = RealtimeService -> {channels[c] : c \in Topics}
    [] manager = SocketChatManager ->
         {supabaseSubscriptions[i] : i \in 1..Len(supabaseSubscriptions)}

\* C17: a change event of a conversation reaches the callback of every
\* component that is subscribed to the conversation at a manager, also when
\* two components subscribed to the same conversation at the same manager.
C17_EverySubscriberReceives ==
  [][\A table \in Tables, c \in Topics :
       postgres_changes(table, c)
         => \A m \in Managers, s \in Subscribers :
              (held[m][s] = c /\ Listens(m, table)) => received'[m][s] > received[m][s]]_vars

\* C18: when a component unsubscribes at a manager (the function returned to
\* it, unsubscribe or unsubscribeAll in its cleanup), every other component
\* that is subscribed there and had an open channel calling its callback
\* still has one, for the same or another conversation.
C18_UnsubscribeLeavesOthers ==
  [][\A m \in Managers, t \in Subscribers :
       (/\ \E s \in Subscribers \ {t} : held[m][s] # NoTopic /\ held'[m][s] = NoTopic
        /\ held[m][t] # NoTopic
        /\ held'[m][t] = held[m][t]
        /\ t \in Callbacks(m, "messages", held[m][t]))
         => t \in Callbacks(m, "messages", held[m][t])']_vars

\* C19: at every manager a conversation has at most one open channel per
\* table, and every open channel is in the manager's map or list.
C19_OneTrackedChannelPerKind ==
  \A m \in Managers :
    /\ \A table \in Tables, c \in Topics : Cardinality(Open(m, table, c)) <= 1
    /\ \A ch \in client_channels : ch.manager = m => ch.id \in Tracked(m)

\* C20: when the socket has reconnected after a loss of the transport, it is
\* in the room of every conversation a component is still subscribed to, so
\* that later events reach all of them without a new subscribe call.
C20_ReconnectRejoinsAll ==
  [][(transport = "lost" /\ socket_connect)
       => \A l \in listeners' : l.conversationId \in rooms']_vars

\* C21: once the socket manager has switched to the fallback, every component
\* that holds a subscription of a conversation, made before or after the
\* switch, is called for a message inserted into it, and sendMessage stores
\* the message instead of throwing "not connected".
C21_FallbackServesSubscribers ==
  [][/\ \A c \in Topics :
          (useSupabaseRealtime /\ postgres_changes("messages", c)) =>
            \A s \in Subscribers :
              held[SocketChatManager][s] = c =>
                received'[SocketChatManager][s] > received[SocketChatManager][s]
     /\ \A s \in Subscribers, c \in Topics :
          (useSupabaseRealtime /\ sendMessage_withFallback(s, c)) =>
            /\ sendResult'[s] = "sent"
            /\ Len(messages') = Len(messages) + 1]_vars

\* C22: when the Responder fails (generateChatResponse throws and no reply
\* is stored), the sendMessage call that waited for it adds exactly one
\* apology to the customer's message list and ends without raising.
C22_ResponderFailureApologizesOnce ==
  [][\A k \in Slots :
       (w_pc[k] = "responder" /\ w_pc'[k] # "responder" /\ messages' = messages) =>
         /\ w_messages' = Append(w_messages, Local("bot-error", "bot"))
         /\ w_pc'[k] = "idle"
         /\ w_outcome'[k] = "error"]_vars

\* The customer's message is stored, the Responder has failed, and the list
\* shows the customer's text followed by the one apology.
C22_ApologyShown ==
  /\ w_outcome[1] = "error"
  /\ w_pc[1] = "idle"
  /\ Len(messages) = 1
  /\ w_messages = <<Local("user", "user"), Local("bot-error", "bot")>>

\* The messages rows of conversation c, in the order they were stored.
MessagesOf(c) == SelectSeq(messages, LAMBDA m : m.conversation_id = c)

\* C23: when the customer has sent one message to a conversation no agent
\* has touched, the Classifier did not escalate and the Responder answered,
\* the Store holds for the conversation the customer's message followed by
\* one reply of the automated responder, and one conversations row for the
\* (chatbot, session) pair.
C23_OneMessageOneReply ==
  (sends = MaxRequests - 1 /\ ops = MaxAnswers /\ w_outcome[1] = "replied") =>
    /\ MessagesOf(ManagerConv) =
         <<[conversation_id |-> ManagerConv, content |-> "customer", role |-> "user",
            agent_id |-> NoAgent],
           [conversation_id |-> ManagerConv, content |-> "reply", role |-> "assistant",
            agent_id |-> NoAgent]>>
    /\ Cardinality(SessionRows(conversations)) = 1

\* The one sendMessage call has ended with the reply stored.
C23_Replied ==
  /\ sends = MaxRequests - 1
  /\ ops = MaxAnswers
  /\ w_outcome[1] = "replied"
  /\ w_pc[1] = "idle"
  /\ Len(messages) = 2

\* C24: when agent a has taken over conversation c (handleManualIntervention
\* has run to its end without an alert), the Store holds the Ownership
\* Assignment {c, a} and exactly one takeover message of a in conversation c.
C24_TakeoverAnnounced ==
  [][\A a \in Agents :
       (handleManualIntervention_rest(a) /\ alerted'[a] = NoAlert) =>
         /\ \E r \in conversation_agents' :
              r.conversation_id = d_arg[a].id /\ r.agent_id = a
         /\ Len(SelectSeq(messages',
                          LAMBDA m : /\ m.conversation_id = d_arg[a].id
                                     /\ m.content = "takeover"
                                     /\ m.agent_id = a)) = 1]_vars

\* C25: when the owning agent a has handed conversation c back, no Ownership
\* Assignment of c is left and exactly one hand-back message is stored in c;
\* and a customer message whose ownership check finds no assignment is not
\* left unanswered as if an agent owned the conversation.
C25_HandBackReturnsToBot ==
  [][/\ \A a \in Agents :
          (handleHandBackToBot_delete(a) /\ handleHandBackToBot_deleted(d_arg[a].id, a) # {}) =>
            /\ \A r \in conversation_agents' : r.conversation_id # d_arg[a].id
            /\ Len(SelectSeq(messages',
                             LAMBDA m : /\ m.conversation_id = d_arg[a].id
                                        /\ m.content = "handback")) = 1
     /\ \A k \in Slots :
          (checkAgentTakeover(k) /\ RowsOf(ManagerConv) = {}) => w_outcome'[k] # "skipped"]_vars

\* C26: a message is appended only to a conversation that exists and whose
\* chatbot is active, on the widget's path and on the agent's path alike,
\* and an append never creates the conversation it writes to.
C26_AppendNeedsConversation ==
  [][Len(messages') > Len(messages) =>
       /\ MessageInsertAllowed(messages'[Len(messages')].conversation_id)
       /\ conversations' = conversations]_vars

\* C27: a toggleKnowledgeBase call for a conversation without an Ownership
\* Assignment fails and changes nothing; for a conversation with one it
\* succeeds and changes at most the knowledge_base_enabled flag of that
\* conversation's assignment.
C27_ToggleNeedsAssignment ==
  [][\A a \in Agents, c \in ConversationIds, enabled \in BOOLEAN :
       (toggleKnowledgeBase(a, c, enabled) \/ toggleKnowledgeBase_chatManager(a, c, enabled)) =>
         IF RowsOf(c) = {}
         THEN toggled' = "thrown" /\ conversation_agents' = conversation_agents
         ELSE /\ toggled' = "done"
              /\ {[conversation_id |-> r.conversation_id, agent_id |-> r.agent_id] :
                    r \in conversation_agents'} =
                 {[conversation_id |-> r.conversation_id, agent_id |-> r.agent_id] :
                    r \in conversation_agents}
              /\ \A r \in conversation_agents' :
                   r.conversation_id # c => r \in conversation_agents]_vars

\* The entries of a view's list stand in the order of their rows' created_at.
OrderedByCreation(list) ==
  \A i, j \in 1..Len(list) : i < j => created_at(list[i].id) <= created_at(list[j].id)

\* C28: at every moment the message list of the customer widget and the
\* list of every agent's dashboard are ordered by the messages' creation
\* timestamps, in whatever order the insert events were delivered.
C28_ListsOrderedByCreation ==
  /\ OrderedByCreation(w_messages)
  /\ \A a \in Agents : OrderedByCreation(d_messages[a])

\* The entries the widget shows, as a set.
Shown == {w_messages[i] : i \in 1..Len(w_messages)}

\* C29: once the events of a takeover of the conversation and the insert
\* event of its message have both been applied by the widget, in whichever
\* order they came, the widget shows the message and the takeover greeting
\* once each, and agentTakenOver, the assigned agent and knowledgeBaseEnabled
\* are those of the conversation_agents row in the Store.
C29_TakeoverAndMessageConverge ==
  (/\ RowsOf(ManagerConv) # {}
   /\ agentChannel = <<>>
   /\ lookups = {}
   /\ \A a \in Agents : d_pc[a] = "idle"
   /\ deliveries["widget"] < MaxDeliveries)
  => /\ Shown = {[id |-> m.id,
                  sender |-> IF m.role = "user" THEN "user"
                             ELSE IF m.agent_id # NoAgent THEN "agent" ELSE "bot"] :
                   m \in {x \in MessageRows : Stored(x)}}
                \cup {[id |-> "agent-takeover", sender |-> "agent"]}
     /\ Len(w_messages) = 2
     /\ agentTakenOver = TRUE
     /\ \E r \in RowsOf(ManagerConv) :
          /\ assignedAgent = r.agent_id
          /\ knowledgeBaseEnabled = r.knowledge_base_enabled

\* The message's event was applied first, the takeover's events after it.
C29_MessageThenTakeover ==
  /\ Len(w_messages) = 2
  /\ w_messages[1].id \in {"m1", "m2"}
  /\ w_messages[2].id = "agent-takeover"
  /\ agentChannel = <<>>
  /\ lookups = {}
  /\ agentTakenOver = TRUE
  /\ assignedAgent \in Agents

\* C30: no step deletes a row of agent_notifications or changes a field of
\* one other than is_read: every notification is still there after the
\* step, in its place and equal to itself up to is_read.
C30_NotificationsKept ==
  [][/\ Len(agent_notifications') >= Len(agent_notifications)
     /\ \A i \in 1..Len(agent_notifications) :
          i <= Len(agent_notifications') =>
            [agent_notifications'[i] EXCEPT !.is_read = FALSE] =
            [agent_notifications[i] EXCEPT !.is_read = FALSE]]_vars

\* C31: a message agent a sends from the dashboard for the selected
\* conversation is stored once, with the selected conversation's id and the
\* agent's id.
C31_AgentMessageInSelected ==
  [][\A a \in Agents :
       (handleSendMessage(a) /\ alerted'[a] = NoAlert) =>
         /\ Len(messages') = Len(messages) + 1
         /\ messages'[Len(messages')].conversation_id = selectedConversation[a]
         /\ messages'[Len(messages')].agent_id = a]_vars

\* Every change event was handled, no agent lookup is pending and no
\* dashboard handler is under way.
Settled ==
  /\ agentChannel = <<>>
  /\ lookups = {}
  /\ \A a \in Agents : d_pc[a] = "idle"

\* C32: once the widget has handled the INSERT and the DELETE event of a
\* takeover that was handed back, and the agent lookup of the INSERT handler
\* has returned, the widget is in the Bot-Owned state: agentTakenOver is
\* false and no agent is assigned.
C32_HandBackEndsBotOwned ==
  (Settled /\ RowsOf(ManagerConv) = {}) => (~agentTakenOver /\ assignedAgent = NoAgent)

\* The entry msg of the widget's list shows the i-th messages row: it came
\* with the row's insert event, or it is the entry sendMessage added at once
\* for the customer's text, or the fallback entry of the reply.
ShowsRow(msg, i) ==
  \/ msg.id = RowIds[i]
  \/ msg.id = "user" /\ messages[i].role = "user"
  \/ msg.id = "bot-fallback" /\ messages[i].content = "reply"

\* C33: every messages row of the Store is shown by at most one entry of the
\* customer widget's message list (one customer message is sent, so the
\* entries of a kind belong to one row).
C33_PersistedShownOnce ==
  \A i \in 1..Len(messages) :
    Cardinality({n \in 1..Len(w_messages) : ShowsRow(w_messages[n], i)}) <= 1

\* C34: when the sentiment step of a sendMessage call decides to escalate,
\* an escalation notice is stored among the messages of the conversation,
\* and the call ends without calling the Responder.
C34_EscalationNoticePersisted ==
  [][\A k \in Slots :
       (analyzeSentiment(k) /\ w_outcome'[k] = "escalated") =>
         /\ Len(messages') = Len(messages) + 1
         /\ messages'[Len(messages')].conversation_id = ManagerConv
         /\ w_pc'[k] = "idle"]_vars

\* C35: a sendMessage call whose ownership check finds the conversation
\* Human-Owned stops there: it does not go on to the sentiment step with a
\* closure that lets the Classifier run.
C35_NoClassifierWhileOwned ==
  [][\A k \in Slots :
       (checkAgentTakeover(k) /\ RowsOf(ManagerConv) # {}) =>
         ~(w_pc'[k] = "sentiment" /\ ~w_closure[k].isEscalated)]_vars

\* C36: when handleManualIntervention of agent a ends with its failure alert,
\* the Store holds no Ownership Assignment of a for the conversation; when
\* it ends without, the assignment exists and the step has stored the
\* manual-request notification and the announcement message.
C36_TakeoverAllOrNothing ==
  [][\A a \in Agents :
       (handleManualIntervention_rest(a) \/ handleManualIntervention_thrown(a)) =>
         IF alerted'[a] = AlertTakeOver
         THEN /\ ~\E r \in conversation_agents' :
                    r.conversation_id = d_arg[a].id /\ r.agent_id = a
              /\ agent_notifications' = agent_notifications
              /\ messages' = messages
         ELSE /\ \E r \in conversation_agents' :
                   r.conversation_id = d_arg[a].id /\ r.agent_id = a
              /\ Len(agent_notifications') = Len(agent_notifications) + 1
              /\ Len(messages') = Len(messages) + 1]_vars

\* C37: once every change event of a takeover that was handed back has been
\* applied by the widget and nothing is pending, the conversation is
\* Bot-Owned and the widget's knowledgeBaseEnabled is true.
C37_HandBackEnablesKnowledgeBase ==
  (Settled /\ RowsOf(ManagerConv) = {}) => knowledgeBaseEnabled

\* ---- the assignments of agents to chatbots ------------------------------

\* Calls of the Agents page that the specification of the assignments allows.
MaxAssigns == 4

\* No agent is assigned to the chatbot yet; nothing else is under way.
AssignInit ==
  /\ conversations = {}
  /\ messages = <<>>
  /\ conversation_agents = {}
  /\ agents = Agents
  /\ agent_assignments = {}
  /\ agent_notifications = <<>>
  /\ WidgetInit /\ EmbedInit /\ DashInit /\ IdIdle /\ SubIdle /\ Budget(0, MaxAssigns)

AssignNext ==
  \/ \E p \in Admins, agentId \in Agents, chatbotId \in Chatbots :
       assignAgentToChatbot(p, agentId, chatbotId)
  \/ \E p \in Admins : assignAgentToChatbot_insert(p)
  \/ \E agentId \in Agents, chatbotId \in Chatbots : removeAgentAssignment(agentId, chatbotId)

SpecAssign == AssignInit /\ [][AssignNext]_vars

SuffixAlphabet == {48, 50, 110}

RECURSIVE SuffixesOfLen(_)
SuffixesOfLen(n) ==
  IF n = 0 THEN {<<>>}
  ELSE {Append(s, ch) : s \in SuffixesOfLen(n - 1), ch \in SuffixAlphabet}

\* The part `session_${Date.now()}_` of two sessions begun in the same
\* millisecond, shortened to "s1_".
SessionPrefix == <<115, 49, 95>>

\* The session ids `session_${Date.now()}_${Math.random().toString(36).substring(2)}`.
SessionIds == {SessionPrefix \o s : s \in UNION {SuffixesOfLen(n) : n \in 1..MaxIdLen}}

\* The chatbots the two sessions talk to: 'b1', 'b2'.
BotIds == {<<98, 49>>, <<98, 50>>}

\* Two sessions <<botId, sessionId, botId, sessionId>> are about to derive
\* their conversation ids.
SessionsInit ==
  /\ StoreInit /\ WidgetInit /\ EmbedInit /\ DashInit /\ SubIdle /\ Budget(0, 0)
  /\ id_pc = "first"
  /\ id_input \in BotIds \X SessionIds \X BotIds \X SessionIds
  /\ id_out = <<>>

\* The widget of the first session derives its conversation id.
first_useChatbot ==
  Derive("first", generateConversationId_useChatbot(id_input[1], id_input[2]), "second")

\* The widget of the second session derives its conversation id.
second_useChatbot ==
  Derive("second", generateConversationId_useChatbot(id_input[3], id_input[4]), "third")

\* The chat manager derives the id the first session's messages are stored under.
first_RealTimeChatManager ==
  Derive("third", generateConversationId_RealTimeChatManager(id_input[1], id_input[2]),
         "fourth")

\* The chat manager derives the id the second session's messages are stored under.
second_RealTimeChatManager ==
  Derive("fourth", generateConversationId_RealTimeChatManager(id_input[3], id_input[4]),
         "done")

SessionsNext ==
  \/ first_useChatbot
  \/ second_useChatbot
  \/ first_RealTimeChatManager
  \/ second_RealTimeChatManager

SpecSessions == SessionsInit /\ [][SessionsNext]_vars

\* C39: two different (botId, sessionId) pairs never derive the same
\* conversation id, neither in the widget nor in the chat manager.
C39_DistinctSessionsDistinctIds ==
  (id_pc = "done" /\ <<id_input[1], id_input[2]>> # <<id_input[3], id_input[4]>>) =>
    /\ id_out[1] # id_out[2]
    /\ id_out[3] # id_out[4]

\* ---- the typing indicator ----------------------------------------------

\* The steps of the sendMessage call in slot k after its start: each is the
\* return of an awaited call.
sendMessage_continues(k) ==
  \/ ensureConversation_select(k)
  \/ ensureConversation_insert(k)
  \/ sendMessage_user(k)
  \/ checkAgentTakeover(k)
  \/ analyzeSentiment(k)
  \/ generateChatResponse_return(k)

\* The conversation exists from an earlier visit of the session and nobody
\* owns it; the widget has just been mounted.  The agent on duty may take the
\* conversation over before the customer sends.
TypingInit ==
  /\ conversations = {[id |-> ManagerConv, chatbot_id |-> BotId, session_id |-> SessionId]}
  /\ messages = <<>>
  /\ conversation_agents = {}
  /\ agents = Agents
  /\ agent_assignments = {[agent_id |-> a, chatbot_id |-> BotId] : a \in Agents}
  /\ agent_notifications = <<>>
  /\ WidgetInit /\ EmbedInit /\ DashInit /\ IdIdle /\ SubIdle
  /\ Budget(MaxRequests, MaxAnswers)

\* Of the insert events, those of the rows with role 'assistant' are
\* delivered: onMessage writes the typing indicator for them only
\* (useChatbot.ts:90-93).
TypingNext ==
  \/ Widget
  \/ TakeOver
  \/ \E i \in DOMAIN RowIds :
       i <= Len(messages) /\ messages[i].role = "assistant" /\ onMessage(i)

\* Every awaited call of sendMessage returns or fails, and a timer that was
\* set fires; when the customer sends, whether an agent takes over and
\* whether an insert event reaches the widget is left open.
SpecTyping ==
  /\ TypingInit
  /\ [][TypingNext]_vars
  /\ \A k \in Slots : WF_vars(sendMessage_continues(k))
  /\ WF_vars(sendMessage_timeout)

\* C40: whenever the typing indicator is on it is turned off later, on every
\* path of sendMessage: conversation taken over, escalation, reply stored
\* (with or without the reply's insert event) and failure.
C40_TypingEnds == isTyping ~> ~isTyping

\* C40, its case: the reply was stored, its insert event never reached the
\* widget, and the fallback timer has shown the reply and turned the
\* indicator off.
C40_TimerTurnedOff ==
  /\ \E k \in Slots : w_outcome[k] = "replied"
  /\ timers = 0
  /\ ~isTyping
  /\ Shows(w_messages, "bot-fallback")
  /\ w_seen = {}

========================================================================
